---------------------------- MODULE Spec2Model ----------------------------
(***************************************************************************)
(* Model of the contributor-analysis pipeline: the activity merger         *)
(* (src/src/combine.js), the scoring engine and ranking aggregator         *)
(* (src/src/calculate_scores.js), the pipeline orchestrator                *)
(* (src/src/orchestrator.js) and main of the summarizer                    *)
(* (src/src/summarize.js).                                                 *)
(*                                                                         *)
(* JavaScript values are modelled as follows.                              *)
(*  - An object is a TLA+ record; a property that is missing, undefined or *)
(*    null is a field that is not in the record's DOMAIN (the code reads   *)
(*    such properties only through `??`, `?.`, `||` and truthiness tests,  *)
(*    which treat the three alike).                                        *)
(*  - A login that is undefined is the token UNDEFINED where it is used as *)
(*    a Map key, stored in `contributor` or compared with `===`; a null    *)
(*    avatar, and a null author of a review or comment, is NULL.           *)
(*  - A text (body, message) is the record [len, mentions]: its length and *)
(*    the number of matches of /@\w+/g in it, which is all the code reads. *)
(*  - Points are exact rationals, held as integers in units of 1/Scale.    *)
(***************************************************************************)
EXTENDS Integers, Sequences, FiniteSets, TLC

VARIABLES
    prsData,        \* argument prsData of combineActivity
    issuesData,     \* argument issuesData
    commitsData,    \* argument commitsData: <<>> for null, <<array>> otherwise
    iPr,            \* number of PRs the first loop has processed
    iIssue,         \* number of issues the second loop has processed
    iCommit,        \* number of commits the third loop has processed
    contributors,   \* the Map, as the sequence of its values in insertion order
    result,         \* the array returned by combineActivity, then ranked
    stage,          \* "merging" | "merged" | "scored" | "rescored" | "idle"
    arr,            \* the array handed to addScores
    input,          \* the array as it was when addScores was first called
    prev,           \* the array returned by the previous addScores call
    runs,           \* number of addScores calls made on arr
    fs,             \* the files of the working directory: path -> content
    fs0,            \* fs as it was when the current invocation started
    clock,          \* the wall clock, in units of 1/TicksPerDay of a day
    timestamp,      \* `const timestamp` of the running fetchData / processData
    pc,             \* the statement the orchestrator is at
    periodsToProcess, \* the periods main still has to process, current first
    entry,          \* the function invoked and its argument
    trace,          \* the gates and commands of the current invocation
    invocation,     \* number of the current invocation
    sumInput,       \* summarize.js: the array parsed from inputFile
    sumArr,         \* summarize.js: `contributors`, mutated by the callbacks
    calls,          \* summarize.js: per contributor, the state of its promise
    outFile,        \* summarize.js: outputFile, <<>> or <<array written>>
    sumPc,          \* summarize.js: position of main
    prArg,          \* the PR handed to calculatePrPoints
    prPoints,       \* <<>> or <<the value calculatePrPoints returned>>
    prEntry,        \* <<>> or <<the prData entry combineActivity built>>
    sizeMultiplier, \* <<>> or <<`const sizeMultiplier` of calculatePrPoints>>
    qualityMultiplier, \* <<>> or <<`const qualityMultiplier`>>
    env,            \* process.env: variable name -> string (of characters)
    scoreArg,       \* <<>> or <<the contributor handed to calculateScore>>
    score,          \* `let score` of calculateScore, a JavaScript value
    scorePc,        \* the statement calculateScore is at
    returned,       \* <<>> or <<the value calculateScore returned>>
    issueArg,       \* the issue handed to calculateIssuePoints
    engaged,        \* <<>> or <<the value hasEngagement returned>>
    multiplier,     \* <<>> or <<`const multiplier` of calculateIssuePoints>>
    issuePoints     \* <<>> or <<the value calculateIssuePoints returned>>

mergeVars == <<prsData, issuesData, commitsData, iPr, iIssue, iCommit,
               contributors, result, stage>>
scoreVars == <<arr, input, prev, runs>>
orchVars == <<fs, fs0, clock, timestamp, pc, periodsToProcess, entry, trace,
              invocation>>
sumVars == <<sumInput, sumArr, calls, outFile, sumPc>>
multVars == <<prEntry, sizeMultiplier, qualityMultiplier>>
envVars == <<env, scoreArg, score, scorePc, returned>>
issueVars == <<issueArg, engaged, multiplier, issuePoints>>
callVars == <<multVars, envVars, issueVars>>
prVars == <<prArg, prPoints, callVars>>
otherVars == <<orchVars, sumVars, prVars>>
vars == <<prsData, issuesData, commitsData, iPr, iIssue, iCommit,
          contributors, result, stage, arr, input, prev, runs,
          fs, fs0, clock, timestamp, pc, periodsToProcess, entry, trace,
          invocation, sumInput, sumArr, calls, outFile, sumPc,
          prArg, prPoints, prEntry, sizeMultiplier, qualityMultiplier,
          env, scoreArg, score, scorePc, returned,
          issueArg, engaged, multiplier, issuePoints>>

\* the orchestrator, summarize.js and the calculatePrPoints call are not running
OrchIdle ==
    /\ fs = <<>> /\ fs0 = <<>> /\ clock = 0 /\ timestamp = 0 /\ pc = "off"
    /\ periodsToProcess = <<>> /\ entry = <<>> /\ trace = <<>>
    /\ invocation = 0
SumIdle ==
    /\ sumInput = <<>> /\ sumArr = <<>> /\ calls = <<>> /\ outFile = <<>>
    /\ sumPc = "off"
MultIdle == prEntry = <<>> /\ sizeMultiplier = <<>> /\ qualityMultiplier = <<>>
EnvIdle ==
    /\ env = <<>> /\ scoreArg = <<>> /\ score = <<>> /\ scorePc = "off"
    /\ returned = <<>>
IssueIdle ==
    /\ issueArg = <<>> /\ engaged = <<>> /\ multiplier = <<>>
    /\ issuePoints = <<>>
CallIdle == MultIdle /\ EnvIdle /\ IssueIdle
PrIdle == prArg = <<>> /\ prPoints = <<>> /\ CallIdle
OtherIdle == OrchIdle /\ SumIdle /\ PrIdle

(***************************************************************************)
(* Bounds of the model.                                                    *)
(***************************************************************************)
MaxRecords == 3      \* total number of PRs + issues + commits of one merge
MaxCommitRun == 5    \* commits of the commit-only scenario
MaxArr == 2          \* length of an array handed to addScores directly
MaxRuns == 2         \* addScores calls on one array
MaxDay == 2          \* calendar days the clock runs through
MaxInvocations == 2  \* invocations of the scheduled workflow
MaxContributors == 2 \* records of the array summarize.js reads

(***************************************************************************)
(* JavaScript helpers.                                                     *)
(***************************************************************************)
UNDEFINED == "<undefined>"
NULL == "<null>"
EmptyObj == [x \in {} |-> x]

Has(obj, f) == f \in DOMAIN obj
\* obj.f ?? d
Get(obj, f, d) == IF f \in DOMAIN obj THEN obj[f] ELSE d
\* {dst: obj.src} as a one-field object, or no field when obj.src is undefined
Copy(obj, src, dst) == IF src \in DOMAIN obj THEN dst :> obj[src] ELSE EmptyObj

\* array.map(Op) is written [i \in 1..Len(s) |-> Op(s[i])] where it is used.
\* array.reduce((sum, x) => sum + x, 0) over an array of numbers
RECURSIVE SumInts(_)
SumInts(s) == IF s = <<>> THEN 0 ELSE Head(s) + SumInts(Tail(s))

Text(n, m) == [len |-> n, mentions |-> m]
EmptyText == Text(0, 0)

(***************************************************************************)
(* combine.js                                                              *)
(***************************************************************************)
createContributorDict(username, avatarUrl) ==
    [contributor |-> username,
     score |-> 0,
     summary |-> "",
     avatar_url |-> IF avatarUrl = UNDEFINED THEN NULL ELSE avatarUrl,
     activity |->
        [code |-> [total_commits |-> 0, total_prs |-> 0,
                   commits |-> <<>>, pull_requests |-> <<>>],
         issues |-> [total_opened |-> 0, opened |-> <<>>],
         engagement |-> [total_comments |-> 0, total_reviews |-> 0,
                         comments |-> <<>>, reviews |-> <<>>]]]

\* contributors.has(author)
MapHas(m, key) == \E k \in 1..Len(m) : m[k].contributor = key
\* position of contributors.get(author) in the Map
MapIndex(m, key) == CHOOSE k \in 1..Len(m) : m[k].contributor = key
\* if (!contributors.has(author)) contributors.set(author, createContributorDict(..))
GetOrCreate(m, author, avatarUrl) ==
    IF MapHas(m, author) THEN m
    ELSE Append(m, createContributorDict(author, avatarUrl))

normFile(f) ==
    Copy(f, "path", "path") @@ Copy(f, "additions", "additions")
        @@ Copy(f, "deletions", "deletions")
normReview(r) ==
    Copy(r, "author", "author") @@ Copy(r, "state", "state")
        @@ Copy(r, "body", "body")
normComment(c) == Copy(c, "author", "author") @@ Copy(c, "body", "body")
normLabel(l) ==
    Copy(l, "name", "name") @@ Copy(l, "color", "color")
        @@ Copy(l, "description", "description")

\* const prData = {...}
prData(pr) ==
    Copy(pr, "number", "number") @@ Copy(pr, "title", "title")
    @@ Copy(pr, "state", "state")
    @@ Copy(pr, "createdAt", "created_at") @@ Copy(pr, "updatedAt", "updated_at")
    @@ [merged |-> Get(pr, "merged", FALSE),
        body |-> Get(pr, "body", EmptyText),
        files |-> LET s == Get(pr, "files", <<>>)
                 IN [i \in 1..Len(s) |-> normFile(s[i])],
        reviews |-> LET s == Get(pr, "reviews", <<>>)
                 IN [i \in 1..Len(s) |-> normReview(s[i])],
        comments |-> LET s == Get(pr, "comments", <<>>)
                 IN [i \in 1..Len(s) |-> normComment(s[i])]]

\* const issueData = {...}
issueData(issue) ==
    Copy(issue, "number", "number") @@ Copy(issue, "title", "title")
    @@ Copy(issue, "state", "state")
    @@ Copy(issue, "createdAt", "created_at")
    @@ Copy(issue, "updatedAt", "updated_at")
    @@ [body |-> Get(issue, "body", EmptyText),
        labels |-> LET s == Get(issue, "labels", <<>>)
                 IN [i \in 1..Len(s) |-> normLabel(s[i])],
        comments |-> LET s == Get(issue, "comments", <<>>)
                 IN [i \in 1..Len(s) |-> normComment(s[i])]]

\* const commitData = {...}
commitData(commit) ==
    Copy(commit, "sha", "sha") @@ Copy(commit, "message", "message")
    @@ Copy(commit, "committedDate", "created_at")
    @@ [additions |-> Get(commit, "additions", 0),
        deletions |-> Get(commit, "deletions", 0),
        changed_files |-> Get(commit, "changedFiles", 0)]

\* an assignment in place of the push: the list keeps the last PR only
pushPrKeepLast(c, pr) ==
    [c EXCEPT !.activity.code.pull_requests = <<prData(pr)>>,
              !.activity.code.total_prs = @ + 1,
              !.activity.engagement.total_reviews =
                  @ + Len(Get(pr, "reviews", <<>>))]

\* One iteration of the loop over prsData, applied to the Map m.
pushPr(c, pr) ==
    [c EXCEPT !.activity.code.pull_requests = Append(@, prData(pr)),
              !.activity.code.total_prs = @ + 1,
              !.activity.engagement.total_reviews =
                  @ + Len(Get(pr, "reviews", <<>>))]
\* mergePr that skips a PR without a file list as it skips one without author
mergePrWithFilesOnly(m, pr) ==
    IF ~Has(pr, "author") \/ ~Has(pr, "files") THEN m
    ELSE LET author == Get(pr.author, "login", UNDEFINED)
             avatarUrl == Get(pr.author, "avatarUrl", UNDEFINED)
             m1 == GetOrCreate(m, author, avatarUrl)
             k == MapIndex(m1, author)
         IN [m1 EXCEPT ![k] = pushPr(@, pr)]
mergePr(m, pr) ==
    IF ~Has(pr, "author") THEN m
    ELSE LET author == Get(pr.author, "login", UNDEFINED)
             avatarUrl == Get(pr.author, "avatarUrl", UNDEFINED)
             m1 == GetOrCreate(m, author, avatarUrl)
             k == MapIndex(m1, author)
         IN [m1 EXCEPT ![k] = pushPr(@, pr)]

\* One iteration of the loop over issuesData.
pushIssue(c, issue) ==
    [c EXCEPT !.activity.issues.opened = Append(@, issueData(issue)),
              !.activity.issues.total_opened = @ + 1,
              !.activity.engagement.total_comments =
                  @ + Len(Get(issue, "comments", <<>>))]
mergeIssue(m, issue) ==
    IF ~Has(issue, "author") THEN m
    ELSE LET author == Get(issue.author, "login", UNDEFINED)
             avatarUrl == Get(issue.author, "avatarUrl", UNDEFINED)
             m1 == GetOrCreate(m, author, avatarUrl)
             k == MapIndex(m1, author)
         IN [m1 EXCEPT ![k] = pushIssue(@, issue)]

\* commit.author?.user is truthy and its login is truthy
commitLoginResolved(commit) ==
    /\ Has(commit, "author")
    /\ Has(commit.author, "user")
    /\ Has(commit.author.user, "login")
    /\ commit.author.user.login # ""
\* pushCommit without `total_commits++`
pushCommitNoCount(c, commit) ==
    [c EXCEPT !.activity.code.commits = Append(@, commitData(commit))]
\* One iteration of the loop over commitsData.
pushCommit(c, commit) ==
    [c EXCEPT !.activity.code.commits = Append(@, commitData(commit)),
              !.activity.code.total_commits = @ + 1]
\* mergeCommit without the `if (!author) continue` test on the login
mergeCommitAnyLogin(m, commit) ==
    IF ~(Has(commit, "author") /\ Has(commit.author, "user")) THEN m
    ELSE LET author == Get(commit.author.user, "login", UNDEFINED)
             m1 == GetOrCreate(m, author, UNDEFINED)
             k == MapIndex(m1, author)
         IN [m1 EXCEPT ![k] = pushCommit(@, commit)]
mergeCommit(m, commit) ==
    IF ~commitLoginResolved(commit) THEN m
    ELSE LET author == commit.author.user.login
             m1 == GetOrCreate(m, author, UNDEFINED)
             k == MapIndex(m1, author)
         IN [m1 EXCEPT ![k] = pushCommit(@, commit)]

\* activityLevel counting the opened issues too
activityLevelWithIssues(c) ==
    Len(c.activity.code.commits) + Len(c.activity.code.pull_requests)
        + Len(c.activity.issues.opened)
\* aActivity / bActivity of the comparator of result.sort
activityLevel(c) ==
    Len(c.activity.code.commits) + Len(c.activity.code.pull_requests)

\* insertDescending that puts an element before the elements of equal key
RECURSIVE insertDescendingTiesFirst(_, _)
insertDescendingTiesFirst(x, s) ==
    IF s = <<>> THEN <<x>>
    ELSE IF x[1] - s[Len(s)][1] >= 0
         THEN Append(insertDescendingTiesFirst(x, SubSeq(s, 1, Len(s) - 1)), s[Len(s)])
         ELSE Append(s, x)
\* Array.prototype.sort with a comparator (a, b) => key(b) - key(a), on the
\* sequence of <<key, element>> pairs. The sort is stable (ECMAScript 2019; the
\* workflow pins Node 18): each pair is inserted after the last pair whose key
\* is not smaller.
RECURSIVE insertDescending(_, _)
insertDescending(x, s) ==
    IF s = <<>> THEN <<x>>
    ELSE IF x[1] - s[Len(s)][1] > 0
         THEN Append(insertDescending(x, SubSeq(s, 1, Len(s) - 1)), s[Len(s)])
         ELSE Append(s, x)
RECURSIVE sortDescending(_)
sortDescending(s) ==
    IF s = <<>> THEN <<>>
    ELSE insertDescending(s[Len(s)], sortDescending(SubSeq(s, 1, Len(s) - 1)))

\* result.sort((a, b) => bActivity - aActivity)
sortByActivity(s) ==
    LET sorted == sortDescending([i \in 1..Len(s) |-> <<activityLevel(s[i]), s[i]>>])
    IN [i \in 1..Len(s) |-> sorted[i][2]]

(***************************************************************************)
(* calculate_scores.js                                                     *)
(*                                                                         *)
(* No weight is overridden through the environment: each `process.env.X || *)
(* d` is its default d.  Every weight, multiplier and bonus is held in     *)
(* tenths (the source's value times 10), and points in units of 1/Scale.   *)
(***************************************************************************)
Scale == 100000
Tenth == Scale \div 10

PR_POINTS_BASE == 70
PR_POINTS_REVIEW == 30
PR_POINTS_APPROVED == 20
PR_POINTS_DESCRIPTION == 30
PR_POINTS_COMMENTS == 5
ISSUE_POINTS_BASE == 50
ISSUE_POINTS_COMMENTS == 5
TOTAL_COMMITS_BASE == 10
TOTAL_PRS_BASE == 20
TOTAL_ISSUES == 10
TOTAL_COMMENTS == 5
REVIEW_POINTS == 50
PR_SIZE_MULTIPLIER_SMALL == 8
PR_SIZE_MULTIPLIER_MEDIUM == 12
PR_SIZE_MULTIPLIER_LARGE == 9
PR_BONUS_SQUASHED == 20
PR_BONUS_CODE_DELETION == 15
PR_BONUS_DOCUMENTATION == 12
ISSUE_MULTIPLIER_BUG == 13
ISSUE_MULTIPLIER_FEATURE == 10
ISSUE_MULTIPLIER_DOCS == 8
ISSUE_MULTIPLIER_ENHANCEMENT == 11
ISSUE_COMPLEXITY_HIGH == 15
ISSUE_COMPLEXITY_MEDIUM == 12
ISSUE_COMPLEXITY_LOW == 10
COLLAB_POINTS_MERGE == 20
COLLAB_POINTS_REVIEW == 10
COLLAB_POINTS_COORDINATION == 15

\* String.prototype.toLowerCase on the label names of the model
toLowerCase(s) ==
    CASE s = "Bug" -> "bug"
      [] s = "Documentation" -> "documentation"
      [] s = "Enhancement" -> "enhancement"
      [] OTHER -> s

\* hasEngagement that reads the reactions of the issue itself
hasEngagementIssueReactions(issue) ==
    Len(Get(issue, "comments", <<>>)) > 0 \/ Len(Get(issue, "reactions", <<>>)) > 0
\* (issue.comments?.length || 0) > 0 || issue.comments?.some(reactions) || false
hasEngagement(issue) ==
    LET comments == Get(issue, "comments", <<>>)
        hasComments == Len(comments) > 0
        hasReactions == \E i \in 1..Len(comments) :
                            Len(Get(comments[i], "reactions", <<>>)) > 0
    IN hasComments \/ hasReactions

\* pr.files.reduce((sum, file) => sum + (file.additions || 0), 0)
totalAdditions(pr) ==
    SumInts([i \in 1..Len(pr.files) |-> Get(pr.files[i], "additions", 0)])
totalDeletions(pr) ==
    SumInts([i \in 1..Len(pr.files) |-> Get(pr.files[i], "deletions", 0)])
totalChanges(pr) ==
    SumInts([i \in 1..Len(pr.files) |->
                Get(pr.files[i], "additions", 0) + Get(pr.files[i], "deletions", 0)])

\* calculatePRSizeMultiplier with `>= 300` as the test for a large PR
calculatePRSizeMultiplierFrom300(pr) ==
    IF totalChanges(pr) < 50 THEN PR_SIZE_MULTIPLIER_SMALL
    ELSE IF totalChanges(pr) >= 300 THEN PR_SIZE_MULTIPLIER_LARGE
    ELSE PR_SIZE_MULTIPLIER_MEDIUM
\* in tenths
calculatePRSizeMultiplier(pr) ==
    IF totalChanges(pr) < 50 THEN PR_SIZE_MULTIPLIER_SMALL
    ELSE IF totalChanges(pr) > 300 THEN PR_SIZE_MULTIPLIER_LARGE
    ELSE PR_SIZE_MULTIPLIER_MEDIUM

\* in thousandths: 1.0 times each bonus that applies
evaluatePRQuality(pr) ==
    LET len == Len(Get(pr, "commits", <<>>))
        commitCount == IF len = 0 THEN 1 ELSE len
        m0 == 1000
        m1 == IF commitCount = 1 /\ totalChanges(pr) > 200
              THEN (m0 * PR_BONUS_SQUASHED) \div 10 ELSE m0
        m2 == IF totalDeletions(pr) > totalAdditions(pr) + 50
              THEN (m1 * PR_BONUS_CODE_DELETION) \div 10 ELSE m1
        m3 == IF Has(pr, "body") /\ pr.body.len > 500
              THEN (m2 * PR_BONUS_DOCUMENTATION) \div 10 ELSE m2
    IN m3

\* the type multiplier with `enhancement` tested before `documentation`
calculateIssueTypeMultiplierEnhancementFirst(labels) ==
    IF "bug" \in labels THEN ISSUE_MULTIPLIER_BUG
    ELSE IF "enhancement" \in labels THEN ISSUE_MULTIPLIER_ENHANCEMENT
    ELSE IF "documentation" \in labels THEN ISSUE_MULTIPLIER_DOCS
    ELSE ISSUE_MULTIPLIER_FEATURE
\* in tenths
calculateIssueTypeMultiplier(labels) ==
    IF "bug" \in labels THEN ISSUE_MULTIPLIER_BUG
    ELSE IF "documentation" \in labels THEN ISSUE_MULTIPLIER_DOCS
    ELSE IF "enhancement" \in labels THEN ISSUE_MULTIPLIER_ENHANCEMENT
    ELSE ISSUE_MULTIPLIER_FEATURE
calculateIssueComplexityMultiplier(labels) ==
    IF "complex" \in labels \/ "high-priority" \in labels THEN ISSUE_COMPLEXITY_HIGH
    ELSE IF "easy" \in labels \/ "good-first-issue" \in labels
         THEN ISSUE_COMPLEXITY_LOW
    ELSE ISSUE_COMPLEXITY_MEDIUM
\* in hundredths
calculateIssueMultiplier(issue) ==
    LET ls == Get(issue, "labels", <<>>)
        labels == {toLowerCase(ls[i].name) : i \in 1..Len(ls)}
    IN calculateIssueTypeMultiplier(labels) * calculateIssueComplexityMultiplier(labels)

\* pr.author?.login
prAuthorLogin(pr) ==
    IF Has(pr, "author") THEN Get(pr.author, "login", UNDEFINED) ELSE UNDEFINED

\* calculateCollaborationPoints without `pr.author?.login !== contributorLogin`
calculateCollaborationPointsAnyAuthor(pr, contributorLogin) ==
    LET reviews == Get(pr, "reviews", <<>>)
        comments == Get(pr, "comments", <<>>)
        merge == IF Get(pr, "merged_by", UNDEFINED) = contributorLogin
                 THEN COLLAB_POINTS_MERGE ELSE 0
        reviewComments == Cardinality({i \in 1..Len(reviews) :
            /\ Get(reviews[i], "author", UNDEFINED) = contributorLogin
            /\ Has(reviews[i], "body") /\ reviews[i].body.len > 20})
        coordComments == Cardinality({i \in 1..Len(comments) :
            /\ Get(comments[i], "author", UNDEFINED) = contributorLogin
            /\ Has(comments[i], "body") /\ comments[i].body.mentions > 1})
    IN Tenth * (merge + reviewComments * COLLAB_POINTS_REVIEW
                      + coordComments * COLLAB_POINTS_COORDINATION)

calculateCollaborationPoints(pr, contributorLogin) ==
    LET reviews == Get(pr, "reviews", <<>>)
        comments == Get(pr, "comments", <<>>)
        merge == IF /\ Get(pr, "merged_by", UNDEFINED) = contributorLogin
                    /\ prAuthorLogin(pr) # contributorLogin
                 THEN COLLAB_POINTS_MERGE ELSE 0
        reviewComments == Cardinality({i \in 1..Len(reviews) :
            /\ Get(reviews[i], "author", UNDEFINED) = contributorLogin
            /\ Has(reviews[i], "body") /\ reviews[i].body.len > 20})
        coordComments == Cardinality({i \in 1..Len(comments) :
            /\ Get(comments[i], "author", UNDEFINED) = contributorLogin
            /\ Has(comments[i], "body") /\ comments[i].body.mentions > 1})
    IN Tenth * (merge + reviewComments * COLLAB_POINTS_REVIEW
                      + coordComments * COLLAB_POINTS_COORDINATION)

\* Math.max in place of Math.min
descriptionPointsMax(pr) ==
    LET byLength == pr.body.len * (Scale \div 500)
        cap == Tenth * PR_POINTS_DESCRIPTION
    IN IF byLength > cap THEN byLength ELSE cap

\* Math.min(pr.body.length / 500, PR_POINTS_DESCRIPTION), in units of 1/Scale
descriptionPoints(pr) ==
    LET byLength == pr.body.len * (Scale \div 500)
        cap == Tenth * PR_POINTS_DESCRIPTION
    IN IF byLength < cap THEN byLength ELSE cap

\* the body of `if (pr.merged && !pr.draft) { ... }`
mergedPrPoints(pr) ==
    LET reviews == Get(pr, "reviews", <<>>)
        comments == Get(pr, "comments", <<>>)
        approvedReviews == Cardinality({i \in 1..Len(reviews) :
            Get(reviews[i], "state", UNDEFINED) = "APPROVED"})
        meaningfulComments == Cardinality({i \in 1..Len(comments) :
            Has(comments[i], "body") /\ comments[i].body.len > 50})
    IN PR_POINTS_BASE * calculatePRSizeMultiplier(pr) * evaluatePRQuality(pr)
       + Tenth * Len(reviews) * PR_POINTS_REVIEW
       + Tenth * approvedReviews * PR_POINTS_APPROVED
       + (IF Has(pr, "body") /\ pr.body.len > 0 THEN descriptionPoints(pr) ELSE 0)
       + Tenth * meaningfulComments * PR_POINTS_COMMENTS

\* calculatePrPoints without the test of pr.draft
calculatePrPointsDraftToo(pr) ==
    IF Get(pr, "merged", FALSE) THEN mergedPrPoints(pr) ELSE 0

\* calculatePrPoints that takes the base points off for a PR that is not merged
calculatePrPointsPenalty(pr) ==
    IF Get(pr, "merged", FALSE) /\ ~Get(pr, "draft", FALSE)
    THEN mergedPrPoints(pr)
    ELSE 0 - Tenth * PR_POINTS_BASE
calculatePrPoints(pr) ==
    IF Get(pr, "merged", FALSE) /\ ~Get(pr, "draft", FALSE)
    THEN mergedPrPoints(pr)
    ELSE 0

calculateIssuePoints(issue) ==
    IF hasEngagement(issue)
    THEN (Scale \div 1000) * ISSUE_POINTS_BASE * calculateIssueMultiplier(issue)
         + Tenth * Len(Get(issue, "comments", <<>>)) * ISSUE_POINTS_COMMENTS
    ELSE 0

\* calculateCommitPoints that pays a commit with changed lines twice
calculateCommitPointsBySize(commit) ==
    IF Get(commit, "additions", 0) + Get(commit, "deletions", 0) > 0
    THEN 2 * Tenth * TOTAL_COMMITS_BASE
    ELSE Tenth * TOTAL_COMMITS_BASE
calculateCommitPoints(commit) == Tenth * TOTAL_COMMITS_BASE

\* reviewsGiven without the filter on the author of the review
reviewsGivenByAnyone(pr, login) == Len(Get(pr, "reviews", <<>>))
\* pr.reviews?.filter(r => r.author === contributor.contributor).length || 0
reviewsGiven(pr, login) ==
    LET reviews == Get(pr, "reviews", <<>>)
    IN Cardinality({i \in 1..Len(reviews) :
                       Get(reviews[i], "author", UNDEFINED) = login})

\* volumeFloor with the commit term subtracted
volumeFloorMinusCommits(contributor) ==
    Tenth * contributor.activity.code.total_prs * TOTAL_PRS_BASE
    + Tenth * contributor.activity.issues.total_opened * TOTAL_ISSUES
    + Tenth * contributor.activity.engagement.total_comments * TOTAL_COMMENTS
    - Tenth * contributor.activity.code.total_commits * TOTAL_COMMITS_BASE
\* "Base points for activity volume", in units of 1/Scale
volumeFloor(contributor) ==
    Tenth * contributor.activity.code.total_commits * TOTAL_COMMITS_BASE
    + Tenth * contributor.activity.code.total_prs * TOTAL_PRS_BASE
    + Tenth * contributor.activity.issues.total_opened * TOTAL_ISSUES
    + Tenth * contributor.activity.engagement.total_comments * TOTAL_COMMENTS

\* the value of `score` before Math.floor, in units of 1/Scale
rawScore(contributor) ==
    LET code == contributor.activity.code
        prs == code.pull_requests
        opened == contributor.activity.issues.opened
        login == contributor.contributor
    IN SumInts([i \in 1..Len(prs) |->
                   calculatePrPoints(prs[i])
                   + calculateCollaborationPoints(prs[i], login)])
       + SumInts([i \in 1..Len(opened) |-> calculateIssuePoints(opened[i])])
       + SumInts([i \in 1..Len(code.commits) |->
                     calculateCommitPoints(code.commits[i])])
       + SumInts([i \in 1..Len(prs) |->
                     Tenth * reviewsGiven(prs[i], login) * REVIEW_POINTS])
       + volumeFloor(contributor)

\* calculateScore that starts from the record's existing score
calculateScoreFromExisting(contributor) ==
    (Scale * contributor.score + rawScore(contributor)) \div Scale
\* Math.floor(score)
calculateScore(contributor) == rawScore(contributor) \div Scale

\* contributors.sort((a, b) => b.score - a.score)
sortByScore(s) ==
    LET sorted == sortDescending([i \in 1..Len(s) |-> <<s[i].score, s[i]>>])
    IN [i \in 1..Len(s) |-> sorted[i][2]]

addScores(cs) ==
    sortByScore([i \in 1..Len(cs) |-> [cs[i] EXCEPT !.score = calculateScore(cs[i])]])

(***************************************************************************)
(* Inputs of the merge: raw records as fetch_github.js shapes them, with   *)
(* and without their optional fields.                                      *)
(***************************************************************************)
AuthorAliceNoAvatar == [login |-> "alice"]
AuthorAliceA == [login |-> "alice", avatarUrl |-> "urlA"]
AuthorAliceB == [login |-> "alice", avatarUrl |-> "urlB"]
AuthorBob == [login |-> "bob", avatarUrl |-> "urlC"]
AuthorNoLogin == [avatarUrl |-> "urlD"]
AuthorEmptyLogin == [login |-> "", avatarUrl |-> "urlE"]

FullPr ==
    [number |-> 1, title |-> "t", state |-> "MERGED", merged |-> TRUE,
     createdAt |-> "d1", updatedAt |-> "d2", body |-> Text(600, 0),
     files |-> <<[path |-> "f", additions |-> 10, deletions |-> 300]>>,
     reviews |-> <<[id |-> "r1", author |-> "alice", state |-> "APPROVED",
                    body |-> Text(30, 0)]>>,
     comments |-> <<[id |-> "c1", author |-> "bob", body |-> Text(60, 2)]>>]
WithAuthor(rec, a) == ("author" :> a) @@ rec
PrSamples ==
    {FullPr}
    \cup {WithAuthor(FullPr, a) : a \in {AuthorAliceNoAvatar, AuthorAliceA, AuthorBob}}
    \cup {WithAuthor(EmptyObj, a) :
            a \in {AuthorAliceB, AuthorNoLogin, AuthorEmptyLogin}}

FullIssue ==
    [number |-> 2, title |-> "t", state |-> "OPEN",
     createdAt |-> "d1", updatedAt |-> "d2", body |-> Text(40, 0),
     labels |-> <<[id |-> "l1", name |-> "Bug", color |-> "red",
                   description |-> "x"]>>,
     comments |-> <<[id |-> "c2", author |-> "bob", body |-> Text(10, 0)]>>]
IssueSamples ==
    {FullIssue}
    \cup {WithAuthor(FullIssue, a) : a \in {AuthorAliceNoAvatar, AuthorBob}}
    \cup {WithAuthor(EmptyObj, a) :
            a \in {AuthorAliceA, AuthorNoLogin, AuthorEmptyLogin}}

FullCommit ==
    [sha |-> "s", message |-> Text(12, 0), committedDate |-> "d1",
     additions |-> 5, deletions |-> 2, changedFiles |-> 1]
CommitBy(rec, login) == WithAuthor(rec, [user |-> [login |-> login]])
CommitSamples ==
    {FullCommit,                                       \* no author
     WithAuthor(FullCommit, [name |-> "n"]),           \* author without user
     WithAuthor(FullCommit, [user |-> [name |-> "n"]]),\* user without login
     CommitBy(FullCommit, ""),
     CommitBy(FullCommit, "alice"),
     CommitBy(EmptyObj, "alice"),
     CommitBy(FullCommit, "bob")}

(***************************************************************************)
(* combineActivity, one loop iteration per step, then addScores on its     *)
(* result.                                                                 *)
(***************************************************************************)
commitsArray == IF commitsData = <<>> THEN <<>> ELSE commitsData[1]

ScoreIdle == arr = <<>> /\ input = <<>> /\ prev = <<>> /\ runs = 0

MergeStart ==
    /\ iPr = 0 /\ iIssue = 0 /\ iCommit = 0
    /\ contributors = <<>>
    /\ result = <<>>
    /\ stage = "merging"

Init ==
    /\ \E a \in 0..MaxRecords : \E b \in 0..(MaxRecords - a) :
         /\ prsData \in [1..a -> PrSamples]
         /\ issuesData \in [1..b -> IssueSamples]
         /\ \/ commitsData = <<>>
            \/ \E c \in 0..(MaxRecords - a - b) :
                 \E cs \in [1..c -> CommitSamples] : commitsData = <<cs>>
    /\ MergeStart
    /\ ScoreIdle
    /\ OtherIdle

\* for (const pr of prsData) { ... }
ProcessPR ==
    /\ stage = "merging"
    /\ iPr < Len(prsData)
    /\ contributors' = mergePr(contributors, prsData[iPr + 1])
    /\ iPr' = iPr + 1
    /\ UNCHANGED <<prsData, issuesData, commitsData, iIssue, iCommit, result, stage>>
    /\ UNCHANGED scoreVars
    /\ UNCHANGED otherVars

\* for (const issue of issuesData) { ... }
ProcessIssue ==
    /\ stage = "merging"
    /\ iPr = Len(prsData)
    /\ iIssue < Len(issuesData)
    /\ contributors' = mergeIssue(contributors, issuesData[iIssue + 1])
    /\ iIssue' = iIssue + 1
    /\ UNCHANGED <<prsData, issuesData, commitsData, iPr, iCommit, result, stage>>
    /\ UNCHANGED scoreVars
    /\ UNCHANGED otherVars

\* if (commitsData) for (const commit of commitsData) { ... }
ProcessCommit ==
    /\ stage = "merging"
    /\ iPr = Len(prsData)
    /\ iIssue = Len(issuesData)
    /\ iCommit < Len(commitsArray)
    /\ contributors' = mergeCommit(contributors, commitsArray[iCommit + 1])
    /\ iCommit' = iCommit + 1
    /\ UNCHANGED <<prsData, issuesData, commitsData, iPr, iIssue, result, stage>>
    /\ UNCHANGED scoreVars
    /\ UNCHANGED otherVars

\* const result = Array.from(contributors.values()); result.sort(...); return result
SortResult ==
    /\ stage = "merging"
    /\ iPr = Len(prsData)
    /\ iIssue = Len(issuesData)
    /\ iCommit = Len(commitsArray)
    /\ result' = sortByActivity(contributors)
    /\ stage' = "merged"
    /\ UNCHANGED <<prsData, issuesData, commitsData, iPr, iIssue, iCommit,
                   contributors>>
    /\ UNCHANGED scoreVars
    /\ UNCHANGED otherVars

\* addScores(contributors) on the merged array
ScoreResult ==
    /\ stage = "merged"
    /\ result' = addScores(result)
    /\ stage' = "scored"
    /\ UNCHANGED <<prsData, issuesData, commitsData, iPr, iIssue, iCommit,
                   contributors>>
    /\ UNCHANGED scoreVars
    /\ UNCHANGED otherVars

Next == ProcessPR \/ ProcessIssue \/ ProcessCommit \/ SortResult \/ ScoreResult

Spec == Init /\ [][Next]_vars

(***************************************************************************)
(* The commit-only scenario: no PRs, no issues, up to MaxCommitRun commits.*)
(***************************************************************************)
CommitOnlyInit ==
    /\ prsData = <<>>
    /\ issuesData = <<>>
    /\ \E c \in 0..MaxCommitRun :
         \E cs \in [1..c -> {FullCommit, CommitBy(FullCommit, "alice"),
                             CommitBy(EmptyObj, "alice"),
                             CommitBy(FullCommit, "bob")}] :
            commitsData = <<cs>>
    /\ MergeStart
    /\ ScoreIdle
    /\ OtherIdle

CommitOnlyNext == ProcessCommit \/ SortResult \/ ScoreResult

CommitOnlySpec == CommitOnlyInit /\ [][CommitOnlyNext]_vars

(***************************************************************************)
(* addScores on arrays of contributor records as combined.json holds them, *)
(* scored or not.                                                          *)
(***************************************************************************)
SmallPr ==
    [number |-> 3, title |-> "t", state |-> "MERGED", merged |-> TRUE,
     body |-> Text(120, 0), files |-> <<>>, reviews |-> <<>>, comments |-> <<>>]
BigPr == prData(FullPr)
OpenPr ==
    [number |-> 4, title |-> "t", state |-> "OPEN", merged |-> FALSE,
     body |-> Text(100, 0),
     files |-> <<[path |-> "g", additions |-> 60, deletions |-> 0]>>,
     reviews |-> <<[author |-> "bob", state |-> "COMMENTED", body |-> Text(25, 0)]>>,
     comments |-> <<[author |-> "alice", body |-> Text(70, 2)]>>]
BugIssue == issueData(FullIssue)
QuietIssue ==
    [number |-> 5, title |-> "t", state |-> "OPEN", body |-> EmptyText,
     labels |-> <<[name |-> "documentation"]>>, comments |-> <<>>]
OneCommit == commitData(FullCommit)

Activity(prs, opened, commits, nCommits, nComments) ==
    [code |-> [total_commits |-> nCommits, total_prs |-> Len(prs),
               commits |-> commits, pull_requests |-> prs],
     issues |-> [total_opened |-> Len(opened), opened |-> opened],
     engagement |-> [total_comments |-> nComments, total_reviews |-> 0,
                     comments |-> <<>>, reviews |-> <<>>]]
ActivitySamples ==
    {Activity(<<>>, <<>>, <<>>, 0, 0),
     Activity(<<SmallPr, SmallPr>>, <<>>, <<>>, 0, 0),
     Activity(<<BigPr, OpenPr>>, <<BugIssue>>, <<OneCommit>>, 1, 1),
     Activity(<<>>, <<QuietIssue, BugIssue>>, <<>>, 0, 1),
     Activity(<<>>, <<>>, <<OneCommit, OneCommit>>, 2, 0),
     Activity(<<OpenPr>>, <<>>, <<>>, 3, 0)}
\* the fields of a record besides its login and activity
Decorations ==
    {[score |-> 0, summary |-> "", avatar_url |-> NULL],
     [score |-> 7, summary |-> "text", avatar_url |-> "urlA"]}
Logins == {"alice", "bob", "carol"}
Contributor(login, activity, d) ==
    [contributor |-> login, score |-> d.score, summary |-> d.summary,
     avatar_url |-> d.avatar_url, activity |-> activity]
ScoreSamples ==
    {Contributor(l, a, d) : l \in Logins, a \in ActivitySamples, d \in Decorations}

MergeIdle ==
    /\ prsData = <<>> /\ issuesData = <<>> /\ commitsData = <<>>
    /\ iPr = 0 /\ iIssue = 0 /\ iCommit = 0
    /\ contributors = <<>> /\ result = <<>>
    /\ stage = "idle"

\* the logins of an array are distinct, as those of a Map's values are
ScoreInit ==
    /\ \E n \in 0..MaxArr :
         /\ arr \in [1..n -> ScoreSamples]
         /\ \A i, j \in 1..n : arr[i].contributor = arr[j].contributor => i = j
    /\ input = arr
    /\ prev = <<>>
    /\ runs = 0
    /\ MergeIdle
    /\ OtherIdle

\* const scoredContributors = addScores(contributors)
AddScores ==
    /\ runs < MaxRuns
    /\ arr' = addScores(arr)
    /\ prev' = arr
    /\ runs' = runs + 1
    /\ UNCHANGED input
    /\ UNCHANGED mergeVars
    /\ UNCHANGED otherVars

ScoreNext == AddScores

ScoreSpec == ScoreInit /\ [][ScoreNext]_vars

(***************************************************************************)
(* combineActivity as a function of its three arguments, for comparing the *)
(* merges of two inputs.                                                   *)
(***************************************************************************)
RECURSIVE loopPrs(_, _)
loopPrs(m, prs) ==
    IF prs = <<>> THEN m ELSE loopPrs(mergePr(m, Head(prs)), Tail(prs))
RECURSIVE loopIssues(_, _)
loopIssues(m, issues) ==
    IF issues = <<>> THEN m
    ELSE loopIssues(mergeIssue(m, Head(issues)), Tail(issues))
RECURSIVE loopCommits(_, _)
loopCommits(m, commits) ==
    IF commits = <<>> THEN m
    ELSE loopCommits(mergeCommit(m, Head(commits)), Tail(commits))
combineActivity(prs, issues, commits) ==
    sortByActivity(loopCommits(loopIssues(loopPrs(<<>>, prs), issues), commits))

(***************************************************************************)
(* The pipeline orchestrator (src/src/orchestrator.js).                    *)
(*                                                                         *)
(* A path is the record [dir, hist, name, date]: data/<dir>/<name> when    *)
(* hist is FALSE, and the file of data/<dir>/history that carries the stem *)
(* of <name> and the date token <date> when hist is TRUE.  The dir "" is   *)
(* data/ itself, "." the working directory and "site" the site output.     *)
(* A file's content is [size, run, window, data, summary]: whether it has  *)
(* bytes, the invocation that wrote it (0: it was there before), the       *)
(* period its data was fetched for, what it holds and what the summary     *)
(* fields of its records are.  Directories are taken to exist              *)
(* (createDirectories, and the mkdir calls, make them).                    *)
(***************************************************************************)
Periods == {"daily", "weekly", "monthly"}
validPeriods == {"daily", "weekly", "monthly", "all"}
\* the order of `all` reversed
PeriodOrderMonthlyFirst == <<"monthly", "weekly", "daily">>
PeriodOrder == <<"daily", "weekly", "monthly">>
\* values of process.argv[2]
PeriodArgs == validPeriods \cup {"yearly"}

TicksPerDay == 2

\* formatISO(now).split('T')[0]: the calendar date of an instant
getTimestamp(now) == now \div TicksPerDay

\* every file directly under data/, the period directory left out
fileInData(dir, name) ==
    [dir |-> "", hist |-> FALSE, name |-> name, date |-> 0]

file(dir, name) == [dir |-> dir, hist |-> FALSE, name |-> name, date |-> 0]

\* a history name without the date token
historyFileUndated(dir, name, ts) ==
    [dir |-> dir, hist |-> TRUE, name |-> name, date |-> 0]

\* `${baseDir}/history/<stem>_${timestamp}.<ext>`
historyFile(dir, name, ts) ==
    [dir |-> dir, hist |-> TRUE, name |-> name, date |-> ts]
rootContributors == file("", "contributors.json")
requiredFiles == {"prs.json", "issues.json", "commits.json"}

content(run, window, data, summary) ==
    [size |-> 1, run |-> run, window |-> window, data |-> data,
     summary |-> summary]
writeFile(f, path, c) ==
    [q \in DOMAIN f \cup {path} |-> IF q = path THEN c ELSE f[q]]
copyFile(f, src, dst) == writeFile(f, dst, f[src])
\* fs.readFile followed by JSON.parse: the file is there and holds JSON
readsJson(f, path) == path \in DOMAIN f /\ f[path].size > 0

\* a gate that passes whatever is on disk
verifyFileAlways(f, path) == TRUE

\* access and stat succeed; the size is logged, not tested
verifyFile(f, path) == path \in DOMAIN f

\* an error that is logged and not rethrown by the combine and score steps
onErrorSwallowed(here) ==
    CASE here = "combine" -> "verify_combined"
      [] here = "score" -> "verify_scored"
      [] OTHER -> "failed"

\* a throw reaches the catch of main, which calls process.exit(1); a direct
\* caller of processData or buildSite gets the rejection
onError(here) == "failed"

\* `if (period === 'daily')` around the summaries and the snapshot
snapshotsHistoryAlways(period) == TRUE

snapshotsHistory(period) == period = "daily"

\* the arguments `node src/summarize.js --force "<in>" "<out>"` hands over
summarizeArgv(period) ==
    <<file(".", "--force"), file(period, "scored.json"),
      file(period, "contributors.json")>>
\* const [inputFile, outputFile] = args
summarizeInputFile(args) == args[1]
summarizeOutputFile(args) == args[2]

event(period, stg, kind, ok, failedCalls) ==
    [period |-> period, stage |-> stg, kind |-> kind, ok |-> ok,
     failedCalls |-> failedCalls]

\* the file systems an invocation may find: a fresh checkout, the artifacts
\* of an earlier run, the same artifacts truncated to 0 bytes; each with or
\* without a readable file named --force in the working directory
CurrentNames ==
    requiredFiles \cup {"combined.json", "scored.json", "contributors.json",
                        "summary.json", "summary.md"}
StaleFiles == {file(p, n) : p \in Periods, n \in CurrentNames}
                  \cup {rootContributors}
NoFiles == [q \in {} |-> 0]
staleFs(size) ==
    [q \in StaleFiles |->
        [size |-> size, run |-> 0,
         window |-> IF q.dir = "" THEN "daily" ELSE q.dir, data |-> q.name,
         summary |-> IF q.name = "contributors.json" THEN "model" ELSE "none"]]
withForceFile(f) == writeFile(f, file(".", "--force"), content(0, "", "list", "none"))
InitialFileSystems ==
    {NoFiles, staleFs(1), staleFs(0),
     withForceFile(NoFiles), withForceFile(staleFs(1)), withForceFile(staleFs(0))}

NoEntry == [fn |-> "", arg |-> ""]
currentPeriod == IF periodsToProcess = <<>> THEN "" ELSE Head(periodsToProcess)
restVars == <<mergeVars, scoreVars, sumVars, prVars>>

OrchInit ==
    /\ fs \in InitialFileSystems
    /\ fs0 = fs
    /\ clock = TicksPerDay
    /\ timestamp = 0
    /\ pc = "ready"
    /\ periodsToProcess = <<>>
    /\ entry = NoEntry
    /\ trace = <<>>
    /\ invocation = 0
    /\ MergeIdle /\ ScoreIdle /\ SumIdle /\ PrIdle

\* what every step of a running invocation leaves alone
Frame == UNCHANGED <<fs0, clock, entry, invocation>> /\ UNCHANGED restVars

\* main that skips fetchData and starts at processData, on the files on disk
mainStartAtProcessData(periodArg, tokens) ==
    /\ entry' = [fn |-> "main", arg |-> periodArg]
    /\ IF periodArg \notin validPeriods \/ ~tokens
       THEN /\ pc' = "failed"
            /\ UNCHANGED <<periodsToProcess, timestamp>>
       ELSE /\ periodsToProcess' =
                   IF periodArg = "all" THEN PeriodOrder ELSE <<periodArg>>
            /\ pc' = "verify_inputs"
            /\ timestamp' = getTimestamp(clock)
    /\ fs0' = fs
    /\ trace' = <<>>
    /\ invocation' = invocation + 1
    /\ UNCHANGED <<fs, clock>>
    /\ UNCHANGED restVars

\* main, from the argument check to the first fetchData of the loop
mainStart(periodArg, tokens) ==
    /\ entry' = [fn |-> "main", arg |-> periodArg]
    /\ IF periodArg \notin validPeriods \/ ~tokens
       THEN /\ pc' = "failed"
            /\ UNCHANGED <<periodsToProcess, timestamp>>
       ELSE /\ periodsToProcess' =
                   IF periodArg = "all" THEN PeriodOrder ELSE <<periodArg>>
            /\ pc' = "fetch_prs"
            /\ timestamp' = getTimestamp(clock)
    /\ fs0' = fs
    /\ trace' = <<>>
    /\ invocation' = invocation + 1
    /\ UNCHANGED <<fs, clock>>
    /\ UNCHANGED restVars

\* node src/orchestrator.js <periodArg>, with or without the two tokens set
MainStart ==
    /\ pc = "ready"
    /\ \E periodArg \in PeriodArgs, tokens \in BOOLEAN :
           mainStart(periodArg, tokens)

\* a direct call of the exported processData(period)
ProcessDataStart ==
    /\ pc = "ready"
    /\ \E period \in Periods :
         /\ entry' = [fn |-> "processData", arg |-> period]
         /\ periodsToProcess' = <<period>>
    /\ pc' = "verify_inputs"
    /\ timestamp' = getTimestamp(clock)
    /\ fs0' = fs
    /\ trace' = <<>>
    /\ invocation' = invocation + 1
    /\ UNCHANGED <<fs, clock>>
    /\ UNCHANGED restVars

\* a direct call of the exported buildSite()
BuildSiteStart ==
    /\ pc = "ready"
    /\ entry' = [fn |-> "buildSite", arg |-> ""]
    /\ pc' = "verify_root"
    /\ fs0' = fs
    /\ trace' = <<>>
    /\ invocation' = invocation + 1
    /\ UNCHANGED <<fs, clock, timestamp, periodsToProcess>>
    /\ UNCHANGED restVars

\* one iteration of the loop of fetchData: the fetch, then the two writes
Fetch(name, here, next) ==
    /\ pc = here
    /\ \E ok \in BOOLEAN :
         /\ IF ok
            THEN LET c == content(invocation, currentPeriod, name, "none")
                     current == writeFile(fs, file(currentPeriod, name), c)
                 IN /\ fs' = writeFile(current,
                            historyFile(currentPeriod, name, timestamp), c)
                    /\ pc' = next
            ELSE /\ fs' = fs
                 /\ pc' = onError(here)
         /\ trace' = Append(trace,
                event(currentPeriod, "fetch", "command", ok, FALSE))
    /\ timestamp' = IF next = "verify_inputs" /\ pc' = next
                    THEN getTimestamp(clock) ELSE timestamp
    /\ UNCHANGED periodsToProcess
    /\ Frame

FetchPRs == Fetch("prs.json", "fetch_prs", "fetch_issues")
FetchIssues == Fetch("issues.json", "fetch_issues", "fetch_commits")
\* after the last type fetchData returns and processData takes its timestamp
FetchCommits == Fetch("commits.json", "fetch_commits", "verify_inputs")

\* `if (!await verifyFile(path)) throw` for each of the paths
Gate(here, stg, paths, next) ==
    /\ pc = here
    /\ LET ok == \A path \in paths : verifyFile(fs, path)
       IN /\ pc' = IF ok THEN next ELSE onError(here)
          /\ trace' = Append(trace,
                 event(currentPeriod, stg, "gate", ok, FALSE))
    /\ UNCHANGED <<fs, timestamp, periodsToProcess>>
    /\ Frame

\* `await runCommand(...)`: the command exits 0 after writing its output, or
\* exits non-zero (it always does when it cannot read its input) and
\* runCommand throws
Command(here, stg, canRun, output, next) ==
    /\ pc = here
    /\ \E ok \in BOOLEAN :
         LET done == ok /\ canRun
         IN /\ fs' = IF done THEN output ELSE fs
            /\ pc' = IF done THEN next ELSE onError(here)
            /\ trace' = Append(trace,
                   event(currentPeriod, stg, "command", done, FALSE))
    /\ UNCHANGED <<timestamp, periodsToProcess>>
    /\ Frame

VerifyInputs ==
    Gate("verify_inputs", "merge",
         {file(currentPeriod, name) : name \in requiredFiles}, "combine")

\* node src/combine.js --prs .. --issues .. --commits .. --output ..
Combine ==
    Command("combine", "merge",
            \A name \in requiredFiles : readsJson(fs, file(currentPeriod, name)),
            writeFile(fs, file(currentPeriod, "combined.json"),
                      content(invocation, currentPeriod, "combined", "none")),
            "verify_combined")

VerifyCombined ==
    Gate("verify_combined", "score", {file(currentPeriod, "combined.json")},
         "score")

\* node src/calculate_scores.js combined.json scored.json
Score ==
    Command("score", "score",
            readsJson(fs, file(currentPeriod, "combined.json")),
            writeFile(fs, file(currentPeriod, "scored.json"),
                      content(invocation, currentPeriod, "scored", "none")),
            "verify_scored")

VerifyScored ==
    Gate("verify_scored", "summarize", {file(currentPeriod, "scored.json")},
         "summarize")

\* node src/summarize.js --force <scored.json> <contributors.json>: main of
\* summarize.js reads inputFile, gives every record a summary (a placeholder
\* where its call failed) and writes the array to outputFile
Summarize ==
    /\ pc = "summarize"
    /\ \E ok \in BOOLEAN, failing \in BOOLEAN :
         LET args == summarizeArgv(currentPeriod)
             inputFile == summarizeInputFile(args)
             outputFile == summarizeOutputFile(args)
             done == ok /\ readsJson(fs, inputFile)
         IN /\ fs' = IF done
                     THEN writeFile(fs, outputFile,
                              content(invocation, fs[inputFile].window,
                                  fs[inputFile].data,
                                  IF failing THEN "placeholder" ELSE "model"))
                     ELSE fs
            /\ pc' = IF done THEN "verify_contributors" ELSE onError("summarize")
            /\ trace' = Append(trace,
                   event(currentPeriod, "summarize", "command", done,
                         done /\ failing))
    /\ UNCHANGED <<timestamp, periodsToProcess>>
    /\ Frame

VerifyContributors ==
    Gate("verify_contributors", "publish",
         {file(currentPeriod, "contributors.json")}, "copy_root")

\* processData returns: main goes on to the next period or to buildSite
returnToCaller ==
    IF entry.fn = "main"
    THEN IF Len(periodsToProcess) > 1
         THEN /\ periodsToProcess' = Tail(periodsToProcess)
              /\ pc' = "fetch_prs"
              /\ timestamp' = getTimestamp(clock)
         ELSE /\ periodsToProcess' = <<>>
              /\ pc' = "verify_root"
              /\ UNCHANGED timestamp
    ELSE /\ pc' = "done"
         /\ UNCHANGED <<periodsToProcess, timestamp>>

\* copyFile to data/contributors.json and the check of the copy
CopyRoot ==
    /\ pc = "copy_root"
    /\ LET src == file(currentPeriod, "contributors.json")
           ok == src \in DOMAIN fs
       IN /\ fs' = IF ok THEN copyFile(fs, src, rootContributors) ELSE fs
          /\ trace' = Append(trace,
                 event(currentPeriod, "publish", "command", ok, FALSE))
          /\ IF ~ok
             THEN pc' = onError("copy_root")
                  /\ UNCHANGED <<periodsToProcess, timestamp>>
             ELSE IF snapshotsHistory(currentPeriod)
                  THEN pc' = "summary_json"
                       /\ UNCHANGED <<periodsToProcess, timestamp>>
                  ELSE returnToCaller
    /\ Frame

\* node src/summarize_daily.js contributors.json -t json summary.json
SummaryJson ==
    Command("summary_json", "daily_summary",
            readsJson(fs, file(currentPeriod, "contributors.json")),
            writeFile(fs, file(currentPeriod, "summary.json"),
                      content(invocation, currentPeriod, "summary", "none")),
            "summary_md")

\* node src/summarize_daily.js contributors.json -t md summary.md
SummaryMd ==
    Command("summary_md", "daily_summary",
            readsJson(fs, file(currentPeriod, "contributors.json")),
            writeFile(fs, file(currentPeriod, "summary.md"),
                      content(invocation, currentPeriod, "summary", "none")),
            "snapshot")

\* the three copyFile calls into history; the first missing source throws
Snapshot ==
    /\ pc = "snapshot"
    /\ LET p == currentPeriod
           names == <<"contributors.json", "summary.json", "summary.md">>
           n == IF file(p, names[1]) \notin DOMAIN fs THEN 0
                ELSE IF file(p, names[2]) \notin DOMAIN fs THEN 1
                ELSE IF file(p, names[3]) \notin DOMAIN fs THEN 2
                ELSE 3
           f1 == IF n >= 1
                 THEN copyFile(fs, file(p, names[1]),
                               historyFile(p, names[1], timestamp))
                 ELSE fs
           f2 == IF n >= 2
                 THEN copyFile(f1, file(p, names[2]),
                               historyFile(p, names[2], timestamp))
                 ELSE f1
           f3 == IF n >= 3
                 THEN copyFile(f2, file(p, names[3]),
                               historyFile(p, names[3], timestamp))
                 ELSE f2
       IN /\ fs' = f3
          /\ trace' = Append(trace, event(p, "snapshot", "command", n = 3, FALSE))
          /\ IF n = 3
             THEN returnToCaller
             ELSE pc' = onError("snapshot")
                  /\ UNCHANGED <<periodsToProcess, timestamp>>
    /\ Frame

VerifyRoot == Gate("verify_root", "build", {rootContributors}, "build_site")

\* npm run build-site
BuildSite ==
    Command("build_site", "build", TRUE,
            writeFile(fs, file("site", "bundle"),
                      content(invocation, "", "site", "none")),
            "generate_site")

\* npm run generate-site, which renders data/contributors.json
GenerateSite ==
    Command("generate_site", "build", readsJson(fs, rootContributors),
            writeFile(fs, file("site", "index.html"),
                      content(invocation, "", "site", "none")),
            "done")

\* time passes
Tick ==
    /\ clock + 1 < (MaxDay + 1) * TicksPerDay
    /\ clock' = clock + 1
    /\ UNCHANGED <<fs, fs0, timestamp, pc, periodsToProcess, entry, trace,
                   invocation>>
    /\ UNCHANGED restVars

Pipeline ==
    \/ FetchPRs \/ FetchIssues \/ FetchCommits
    \/ VerifyInputs \/ Combine \/ VerifyCombined \/ Score \/ VerifyScored
    \/ Summarize \/ VerifyContributors \/ CopyRoot
    \/ SummaryJson \/ SummaryMd \/ Snapshot
    \/ VerifyRoot \/ BuildSite \/ GenerateSite

OrchNext == MainStart \/ ProcessDataStart \/ BuildSiteStart \/ Pipeline \/ Tick

\* one invocation of the orchestrator, or of one of its exported functions
OrchSpec == OrchInit /\ [][OrchNext]_vars

\* the scheduled workflow: npm run orchestrate:daily, again and again
DailyRun ==
    /\ pc \in {"ready", "done", "failed"}
    /\ invocation < MaxInvocations
    /\ mainStart("daily", TRUE)

HistoryNext == DailyRun \/ Pipeline \/ Tick

HistorySpec == OrchInit /\ [][HistoryNext]_vars

(***************************************************************************)
(* main of src/src/summarize.js: one asynchronous callback per record of   *)
(* the input array, settling in any order, then one write.                 *)
(***************************************************************************)
\* what generateSummary can return for a record: the sentence for a record
\* without recent activity, the model's text, or the text of its catch
SummaryKinds == {"none", "model", "error"}
summaryText(login, kind) ==
    CASE kind = "none" ->
             (CASE login = "alice" ->
                       "alice has no significant activity in the last 90 days."
                [] login = "bob" ->
                       "bob has no significant activity in the last 90 days."
                [] OTHER ->
                       "carol has no significant activity in the last 90 days.")
      [] kind = "model" ->
             (CASE login = "alice" -> "alice is ..."
                [] login = "bob" -> "bob is ..."
                [] OTHER -> "carol is ...")
      [] OTHER ->
             (CASE login = "alice" ->
                       "Unable to generate summary for alice due to an error: ..."
                [] login = "bob" ->
                       "Unable to generate summary for bob due to an error: ..."
                [] OTHER ->
                       "Unable to generate summary for carol due to an error: ...")

\* getRecentActivity returns nothing for a record without PRs, issues and
\* commits, and may return nothing for any record (all entries too old)
summaryKinds(c) ==
    IF /\ c.activity.code.pull_requests = <<>>
       /\ c.activity.issues.opened = <<>>
       /\ c.activity.code.commits = <<>>
    THEN {"none"}
    ELSE SummaryKinds

\* records as scored.json holds them
SummarizeSamples ==
    {[c EXCEPT !.score = calculateScore(c)] :
        c \in {Contributor(l, a, [score |-> 0, summary |-> "", avatar_url |-> "urlA"]) :
                  l \in Logins,
                  a \in {Activity(<<>>, <<>>, <<>>, 0, 0),
                         Activity(<<BigPr, OpenPr>>, <<BugIssue>>, <<OneCommit>>, 1, 1)}}}

Pending == [state |-> "pending", summary |-> "", rank |-> 0]

SummarizeInit ==
    /\ \E n \in 0..MaxContributors :
         /\ sumInput \in [1..n -> SummarizeSamples]
         /\ \A i, j \in 1..n :
               sumInput[i].contributor = sumInput[j].contributor => i = j
    /\ sumArr = <<>>
    /\ calls = <<>>
    /\ outFile = <<>>
    /\ sumPc = "start"
    /\ MergeIdle /\ ScoreIdle /\ OrchIdle /\ PrIdle

\* readFile, JSON.parse, the API key check, and contributors.map(async ...)
\* up to the first await of every callback
StartSummaries ==
    /\ sumPc = "start"
    /\ \E readable \in BOOLEAN, apiKey \in BOOLEAN :
         IF readable /\ apiKey
         THEN /\ sumArr' = sumInput
              /\ calls' = [i \in 1..Len(sumInput) |-> Pending]
              /\ sumPc' = "waiting"
         ELSE /\ sumPc' = "exit1"
              /\ UNCHANGED <<sumArr, calls>>
    /\ UNCHANGED <<sumInput, outFile>>
    /\ UNCHANGED <<mergeVars, scoreVars, orchVars, prVars>>

\* the summary goes to the first record that has none yet
settleFirstEmpty(a, i, text) ==
    LET k == CHOOSE n \in 1..Len(a) :
                 a[n].summary = "" /\ \A m \in 1..(n - 1) : a[m].summary # ""
    IN [a EXCEPT ![k].summary = text]

\* contributor.summary = summary, in the callback of record i
settle(a, i, text) == [a EXCEPT ![i].summary = text]

\* generateSummary of record i returns and its callback runs to the end
Settle ==
    /\ sumPc = "waiting"
    /\ \E i \in 1..Len(calls) :
         /\ calls[i].state = "pending"
         /\ \E kind \in summaryKinds(sumArr[i]) :
              LET text == summaryText(sumArr[i].contributor, kind)
                  settled == Cardinality({j \in 1..Len(calls) :
                                             calls[j].state = "settled"})
              IN /\ sumArr' = settle(sumArr, i, text)
                 /\ calls' = [calls EXCEPT ![i] =
                        [state |-> "settled", summary |-> text,
                         rank |-> settled + 1]]
    /\ UNCHANGED <<sumInput, outFile, sumPc>>
    /\ UNCHANGED <<mergeVars, scoreVars, orchVars, prVars>>

\* Promise.all has resolved: mkdir, writeFile(outputFile, ...), stat
WriteOutput ==
    /\ sumPc = "waiting"
    /\ \A i \in 1..Len(calls) : calls[i].state = "settled"
    /\ \E ok \in BOOLEAN :
         IF ok
         THEN outFile' = <<sumArr>> /\ sumPc' = "written"
         ELSE outFile' = outFile /\ sumPc' = "exit1"
    /\ UNCHANGED <<sumInput, sumArr, calls>>
    /\ UNCHANGED <<mergeVars, scoreVars, orchVars, prVars>>

SummarizeNext == StartSummaries \/ Settle \/ WriteOutput

SummarizeSpec == SummarizeInit /\ [][SummarizeNext]_vars

(***************************************************************************)
(* calculatePrPoints on one PR.                                            *)
(***************************************************************************)
FlagValues == {"missing", "true", "false"}
\* the record with the flag added, unless it is missing
withFlag(rec, name, v) ==
    IF v = "missing" THEN rec
    ELSE [f \in DOMAIN rec \cup {name} |->
             IF f = name THEN v = "true" ELSE rec[f]]
PrBodies == {Text(0, 0), Text(120, 0), Text(2000, 0)}
PrFileLists == {<<>>, <<[path |-> "f", additions |-> 400, deletions |-> 10]>>}
PrReviewLists ==
    {<<>>,
     <<[author |-> "bob", state |-> "APPROVED", body |-> Text(30, 0)]>>,
     <<[author |-> "bob", state |-> "COMMENTED", body |-> Text(5, 0)],
       [author |-> "carol", state |-> "APPROVED", body |-> Text(30, 0)]>>}
PrCommentLists == {<<>>, <<[author |-> "bob", body |-> Text(70, 0)]>>}
PrPointSamples ==
    {withFlag(withFlag([number |-> 1, title |-> "t", state |-> "OPEN",
                        body |-> b, files |-> fl, reviews |-> r,
                        comments |-> c], "merged", m), "draft", d) :
        b \in PrBodies, fl \in PrFileLists, r \in PrReviewLists,
        c \in PrCommentLists, m \in FlagValues, d \in FlagValues}

PrPointsInit ==
    /\ prArg \in PrPointSamples
    /\ prPoints = <<>>
    /\ MergeIdle /\ ScoreIdle /\ OrchIdle /\ SumIdle /\ CallIdle

\* const points = calculatePrPoints(pr)
CalculatePrPoints ==
    /\ prPoints = <<>>
    /\ prPoints' = <<calculatePrPoints(prArg)>>
    /\ UNCHANGED <<prArg, callVars>>
    /\ UNCHANGED <<mergeVars, scoreVars, orchVars, sumVars>>

PrPointsNext == CalculatePrPoints

PrPointsSpec == PrPointsInit /\ [][PrPointsNext]_vars

(***************************************************************************)
(* The two multipliers of calculatePrPoints, on the entry that             *)
(* combineActivity builds from one raw PR.                                 *)
(***************************************************************************)
\* the record with the property added, unless opt is <<>>
withOptional(rec, name, opt) ==
    IF opt = <<>> THEN rec ELSE (name :> opt[1]) @@ rec
optional(S) == {<<>>} \cup {<<x>> : x \in S}

FileSamples ==
    {[path |-> "f"]}
    \cup {[path |-> "f", additions |-> a, deletions |-> d] :
            a \in {0, 49, 50, 200}, d \in {0, 1, 100, 101, 251}}
RawFileLists ==
    {<<>>} \cup {<<f>> : f \in FileSamples}
           \cup {<<f, g>> : f \in FileSamples, g \in FileSamples}
RawCommitLists == {<<>>, <<[sha |-> "s1"]>>, <<[sha |-> "s1"], [sha |-> "s2"]>>}
RawBodies == {Text(0, 0), Text(500, 0), Text(501, 0)}
RawPrSamples ==
    {withOptional(withOptional(withOptional(
        [number |-> 1, title |-> "t", state |-> "MERGED", merged |-> TRUE,
         author |-> AuthorAliceA],
        "files", f), "commits", c), "body", b) :
        f \in optional(RawFileLists), c \in optional(RawCommitLists),
        b \in optional(RawBodies)}

PrMultiplierInit ==
    /\ prArg \in RawPrSamples
    /\ prPoints = <<>>
    /\ MultIdle /\ EnvIdle /\ IssueIdle
    /\ MergeIdle /\ ScoreIdle /\ OrchIdle /\ SumIdle

\* const prData = {...}; contrib.activity.code.pull_requests.push(prData)
NormalizePr ==
    /\ prEntry = <<>>
    /\ prEntry' = <<prData(prArg)>>
    /\ UNCHANGED <<prArg, prPoints, sizeMultiplier, qualityMultiplier>>
    /\ UNCHANGED <<envVars, issueVars>>
    /\ UNCHANGED <<mergeVars, scoreVars, orchVars, sumVars>>

\* if (pr.merged && !pr.draft) { const sizeMultiplier = calculatePRSizeMultiplier(pr)
SizeMultiplier ==
    /\ prEntry # <<>>
    /\ sizeMultiplier = <<>>
    /\ Get(prEntry[1], "merged", FALSE) /\ ~Get(prEntry[1], "draft", FALSE)
    /\ sizeMultiplier' = <<calculatePRSizeMultiplier(prEntry[1])>>
    /\ UNCHANGED <<prArg, prPoints, prEntry, qualityMultiplier>>
    /\ UNCHANGED <<envVars, issueVars>>
    /\ UNCHANGED <<mergeVars, scoreVars, orchVars, sumVars>>

\* const qualityMultiplier = evaluatePRQuality(pr)
QualityMultiplier ==
    /\ sizeMultiplier # <<>>
    /\ qualityMultiplier = <<>>
    /\ qualityMultiplier' = <<evaluatePRQuality(prEntry[1])>>
    /\ UNCHANGED <<prArg, prPoints, prEntry, sizeMultiplier>>
    /\ UNCHANGED <<envVars, issueVars>>
    /\ UNCHANGED <<mergeVars, scoreVars, orchVars, sumVars>>

PrMultiplierNext == NormalizePr \/ SizeMultiplier \/ QualityMultiplier

PrMultiplierSpec == PrMultiplierInit /\ [][PrMultiplierNext]_vars

(***************************************************************************)
(* calculateIssuePoints on one issue of a contributor record read from     *)
(* the input file.                                                         *)
(***************************************************************************)
LabelNames ==
    {"bug", "Bug", "documentation", "enhancement", "Enhancement", "feature",
     "complex", "high-priority", "easy", "good-first-issue"}
IssueLabelLists ==
    {<<>>} \cup {<<[name |-> a]>> : a \in LabelNames}
           \cup {<<[name |-> a], [name |-> b]>> : a \in LabelNames, b \in LabelNames}
           \cup {<<[name |-> a], [name |-> b], [name |-> c]>> :
                    a \in LabelNames, b \in LabelNames, c \in LabelNames}
IssueCommentLists ==
    {<<>>,
     <<[author |-> "bob", body |-> Text(10, 0)]>>,
     <<[author |-> "bob", body |-> Text(10, 0), reactions |-> <<>>]>>,
     <<[author |-> "bob", body |-> Text(10, 0), reactions |-> <<"+1">>],
       [author |-> "carol", body |-> Text(80, 0)]>>}
IssuePointSamples ==
    {withOptional(withOptional(
        [number |-> 2, title |-> "t", state |-> "OPEN", body |-> Text(40, 0),
         labels |-> ls],
        "comments", c), "reactions", r) :
        ls \in IssueLabelLists, c \in optional(IssueCommentLists),
        r \in optional({<<"+1">>})}

IssuePointsInit ==
    /\ issueArg \in IssuePointSamples
    /\ engaged = <<>>
    /\ multiplier = <<>>
    /\ issuePoints = <<>>
    /\ MultIdle /\ EnvIdle /\ prArg = <<>> /\ prPoints = <<>>
    /\ MergeIdle /\ ScoreIdle /\ OrchIdle /\ SumIdle

issueFrame ==
    /\ UNCHANGED issueArg
    /\ UNCHANGED <<mergeVars, scoreVars, orchVars, sumVars, prArg, prPoints,
                   multVars, envVars>>

\* if (hasEngagement(issue))
HasEngagement ==
    /\ engaged = <<>>
    /\ engaged' = <<hasEngagement(issueArg)>>
    /\ UNCHANGED <<multiplier, issuePoints>>
    /\ issueFrame

\* const multiplier = calculateIssueMultiplier(issue)
IssueMultiplier ==
    /\ engaged = <<TRUE>>
    /\ multiplier = <<>>
    /\ multiplier' = <<calculateIssueMultiplier(issueArg)>>
    /\ UNCHANGED <<engaged, issuePoints>>
    /\ issueFrame

\* points += ISSUE_POINTS_BASE * multiplier; points += commentCount * ..; return points
IssuePoints ==
    /\ engaged = <<FALSE>> \/ multiplier # <<>>
    /\ issuePoints = <<>>
    /\ issuePoints' = <<calculateIssuePoints(issueArg)>>
    /\ UNCHANGED <<engaged, multiplier>>
    /\ issueFrame

IssuePointsNext == HasEngagement \/ IssueMultiplier \/ IssuePoints

IssuePointsSpec == IssuePointsInit /\ [][IssuePointsNext]_vars

(***************************************************************************)
(* calculateScore when weights are overridden through process.env.         *)
(*                                                                         *)
(* An environment variable is a string, here the sequence of its           *)
(* characters.  A JavaScript value is a number (in units of 1/Scale), NaN  *)
(* or a string; `+` concatenates when one operand is a string, `*` and     *)
(* Math.floor convert their operands with Number().  The overrides         *)
(* modelled are those of the five weights calculateScore and               *)
(* calculateCommitPoints read themselves (calculate_scores.js:16-20); the  *)
(* PR and issue weights keep their defaults.                               *)
(***************************************************************************)
Digits == <<"0", "1", "2", "3", "4", "5", "6", "7", "8", "9">>
isDigit(ch) == \E i \in 1..10 : Digits[i] = ch
digitValue(ch) == (CHOOSE i \in 1..10 : Digits[i] = ch) - 1

Num(n) == [t |-> "number", v |-> n]
NaN == [t |-> "NaN"]
Str(chars) == [t |-> "string", v |-> chars]
\* an integer too large to be held in units of 1/Scale
Integer(k) == [t |-> "integer", v |-> k]

RECURSIVE intDigits(_)
intDigits(k) ==
    IF k < 10 THEN <<Digits[k + 1]>>
    ELSE Append(intDigits(k \div 10), Digits[(k % 10) + 1])
RECURSIVE fracDigits(_, _)
fracDigits(f, unit) ==
    IF f = 0 THEN <<>>
    ELSE <<Digits[(f \div unit) + 1]>> \o fracDigits(f % unit, unit \div 10)
\* String(x): the decimal digits of a non-negative number
NumberToString(x) ==
    CASE x.t = "string" -> x.v
      [] x.t = "NaN" -> <<"N", "a", "N">>
      [] OTHER -> intDigits(x.v \div Scale)
                  \o (IF x.v % Scale = 0 THEN <<>>
                      ELSE <<".">> \o fracDigits(x.v % Scale, Tenth))

RECURSIVE digitsValue(_)
digitsValue(chars) ==
    IF chars = <<>> THEN 0
    ELSE 10 * digitsValue(SubSeq(chars, 1, Len(chars) - 1))
         + digitValue(chars[Len(chars)])
\* the fraction digits beyond 1/Scale are dropped
RECURSIVE fractionValue(_, _)
fractionValue(chars, unit) ==
    IF chars = <<>> \/ unit = 0 THEN 0
    ELSE digitValue(Head(chars)) * unit + fractionValue(Tail(chars), unit \div 10)
\* a StringNumericLiteral made of digits and at most one point
isNumeric(chars) ==
    /\ \A i \in 1..Len(chars) : isDigit(chars[i]) \/ chars[i] = "."
    /\ Cardinality({i \in 1..Len(chars) : chars[i] = "."}) <= 1
    /\ chars # <<".">>
dotAt(chars) ==
    IF \E i \in 1..Len(chars) : chars[i] = "."
    THEN CHOOSE i \in 1..Len(chars) : chars[i] = "."
    ELSE Len(chars) + 1
integerPart(chars) == digitsValue(SubSeq(chars, 1, dotAt(chars) - 1))
\* Number(x)
ToNumber(x) ==
    IF x.t # "string" THEN x
    ELSE IF isNumeric(x.v)
         THEN Num(integerPart(x.v) * Scale
                  + fractionValue(SubSeq(x.v, dotAt(x.v) + 1, Len(x.v)), Tenth))
         ELSE NaN

\* a + b
plus(a, b) ==
    IF a.t = "string" \/ b.t = "string" THEN Str(NumberToString(a) \o NumberToString(b))
    ELSE IF a.t = "NaN" \/ b.t = "NaN" THEN NaN
    ELSE Num(a.v + b.v)
\* n * b for a count n (a length or a total_* counter)
times(n, b) == IF ToNumber(b).t = "NaN" THEN NaN ELSE Num(n * ToNumber(b).v)
\* score += x for each x of the sequence
RECURSIVE plusAll(_, _)
plusAll(a, xs) == IF xs = <<>> THEN a ELSE plusAll(plus(a, Head(xs)), Tail(xs))
\* Math.floor(x) of a non-negative x
mathFloor(x) ==
    CASE x.t = "string" -> IF isNumeric(x.v) THEN Integer(integerPart(x.v)) ELSE NaN
      [] x.t = "NaN" -> NaN
      [] OTHER -> Integer(x.v \div Scale)

\* process.env.X || d, with the default d in tenths
weight(e, name, d) ==
    IF Has(e, name) /\ e[name] # <<>> THEN Str(e[name]) ELSE Num(Tenth * d)

EnvSamples ==
    {withOptional(withOptional(withOptional(withOptional(withOptional(EmptyObj,
        "TOTAL_COMMITS_BASE", a), "TOTAL_PRS_BASE", b), "TOTAL_ISSUES", c),
        "TOTAL_COMMENTS", d), "REVIEW_POINTS", r) :
        a \in optional({<<>>, <<"0">>, <<"3">>, <<"0", ".", "5">>}),
        b \in optional({<<"4">>}), c \in optional({<<"2">>}),
        d \in optional({<<"1">>}), r \in optional({<<"2">>})}

CalculateScoreInit ==
    /\ env \in EnvSamples
    /\ \E l \in {"alice", "bob"}, a \in ActivitySamples :
         scoreArg = <<Contributor(l, a, [score |-> 0, summary |-> "",
                                         avatar_url |-> NULL])>>
    /\ score = Num(0)
    /\ scorePc = "prs"
    /\ returned = <<>>
    /\ MultIdle /\ IssueIdle /\ prArg = <<>> /\ prPoints = <<>>
    /\ MergeIdle /\ ScoreIdle /\ OrchIdle /\ SumIdle

scoreFrame ==
    /\ UNCHANGED <<env, scoreArg>>
    /\ UNCHANGED <<mergeVars, scoreVars, orchVars, sumVars, prArg, prPoints,
                   multVars, issueVars>>

\* for (const pr of pull_requests) { score += calculatePrPoints(pr, {});
\*     score += calculateCollaborationPoints(pr, contributor.contributor) }
ScorePrs ==
    /\ scorePc = "prs"
    /\ LET prs == scoreArg[1].activity.code.pull_requests
       IN score' = plusAll(score,
              [i \in 1..Len(prs) |->
                  Num(calculatePrPoints(prs[i])
                      + calculateCollaborationPoints(prs[i], scoreArg[1].contributor))])
    /\ scorePc' = "issues"
    /\ UNCHANGED returned
    /\ scoreFrame

\* for (const issue of opened) score += calculateIssuePoints(issue)
ScoreIssues ==
    /\ scorePc = "issues"
    /\ LET opened == scoreArg[1].activity.issues.opened
       IN score' = plusAll(score,
              [i \in 1..Len(opened) |-> Num(calculateIssuePoints(opened[i]))])
    /\ scorePc' = "commits"
    /\ UNCHANGED returned
    /\ scoreFrame

\* for (const commit of commits) score += calculateCommitPoints(commit),
\* where calculateCommitPoints returns TOTAL_COMMITS_BASE
ScoreCommits ==
    /\ scorePc = "commits"
    /\ LET commits == scoreArg[1].activity.code.commits
       IN score' = plusAll(score,
              [i \in 1..Len(commits) |->
                  weight(env, "TOTAL_COMMITS_BASE", TOTAL_COMMITS_BASE)])
    /\ scorePc' = "reviews"
    /\ UNCHANGED returned
    /\ scoreFrame

\* for (const pr of pull_requests) score += reviewsGiven * REVIEW_POINTS
ScoreReviews ==
    /\ scorePc = "reviews"
    /\ LET prs == scoreArg[1].activity.code.pull_requests
       IN score' = plusAll(score,
              [i \in 1..Len(prs) |->
                  times(reviewsGiven(prs[i], scoreArg[1].contributor),
                        weight(env, "REVIEW_POINTS", REVIEW_POINTS))])
    /\ scorePc' = "volume"
    /\ UNCHANGED returned
    /\ scoreFrame

\* score += total_commits * TOTAL_COMMITS_BASE; ... total_comments * TOTAL_COMMENTS
ScoreVolume ==
    /\ scorePc = "volume"
    /\ LET activity == scoreArg[1].activity
       IN score' = plusAll(score,
              <<times(activity.code.total_commits,
                      weight(env, "TOTAL_COMMITS_BASE", TOTAL_COMMITS_BASE)),
                times(activity.code.total_prs,
                      weight(env, "TOTAL_PRS_BASE", TOTAL_PRS_BASE)),
                times(activity.issues.total_opened,
                      weight(env, "TOTAL_ISSUES", TOTAL_ISSUES)),
                times(activity.engagement.total_comments,
                      weight(env, "TOTAL_COMMENTS", TOTAL_COMMENTS))>>)
    /\ scorePc' = "floor"
    /\ UNCHANGED returned
    /\ scoreFrame

\* return Math.floor(score)
ReturnScore ==
    /\ scorePc = "floor"
    /\ returned' = <<mathFloor(score)>>
    /\ scorePc' = "done"
    /\ UNCHANGED score
    /\ scoreFrame

CalculateScoreNext ==
    ScorePrs \/ ScoreIssues \/ ScoreCommits \/ ScoreReviews \/ ScoreVolume
        \/ ReturnScore

CalculateScoreSpec == CalculateScoreInit /\ [][CalculateScoreNext]_vars

(***************************************************************************)
(* Properties of the merge.                                                *)
(***************************************************************************)
resultLogins == {result[i].contributor : i \in 1..Len(result)}

\* The logins of the input records that carry an author: for a PR or an issue
\* the `login` of a present author object, for a commit a non-empty
\* author.user.login.
inputLogins ==
    {Get(prsData[i].author, "login", UNDEFINED) :
        i \in {j \in 1..Len(prsData) : "author" \in DOMAIN prsData[j]}}
    \cup {Get(issuesData[i].author, "login", UNDEFINED) :
        i \in {j \in 1..Len(issuesData) : "author" \in DOMAIN issuesData[j]}}
    \cup {commitsArray[i].author.user.login :
        i \in {j \in 1..Len(commitsArray) :
                /\ "author" \in DOMAIN commitsArray[j]
                /\ "user" \in DOMAIN commitsArray[j].author
                /\ "login" \in DOMAIN commitsArray[j].author.user
                /\ commitsArray[j].author.user.login # ""}}

\* C1: the contributors returned by combineActivity are exactly the author
\* logins of the input records that carry an author, each in exactly one
\* output record; a record without author (a commit without resolved login)
\* creates no contributor.
C1_MergeIdentity ==
    stage # "merging" =>
        /\ resultLogins = inputLogins
        /\ \A i, j \in 1..Len(result) :
              result[i].contributor = result[j].contributor => i = j

\* C1 witness: a merge that skipped a PR without author and a commit whose
\* login is unresolved, and returned the one contributor of the third record.
C1_Witness ==
    /\ stage = "merged"
    /\ Len(result) = 1
    /\ \E i \in 1..Len(prsData) : "author" \notin DOMAIN prsData[i]
    /\ \E i \in 1..Len(commitsArray) :
          /\ "author" \in DOMAIN commitsArray[i]
          /\ "user" \in DOMAIN commitsArray[i].author
          /\ "login" \notin DOMAIN commitsArray[i].author.user

countersConsistent(c) ==
    /\ c.activity.code.total_commits = Len(c.activity.code.commits)
    /\ c.activity.code.total_prs = Len(c.activity.code.pull_requests)
    /\ c.activity.issues.total_opened = Len(c.activity.issues.opened)

\* C2: after every step of the merge and in its output, every contributor
\* record has total_commits = len(commits), total_prs = len(pull_requests)
\* and total_opened = len(opened).
C2_CounterConsistency ==
    /\ \A i \in 1..Len(contributors) : countersConsistent(contributors[i])
    /\ \A i \in 1..Len(result) : countersConsistent(result[i])

\* C2 witness: in the middle of the commit loop, a contributor that already
\* has a PR, an issue and a commit.
C2_Witness ==
    /\ stage = "merging"
    /\ iCommit = 1
    /\ \E i \in 1..Len(contributors) :
          /\ contributors[i].activity.code.total_prs = 1
          /\ contributors[i].activity.issues.total_opened = 1
          /\ contributors[i].activity.code.total_commits = 1

\* C3: every record returned by combineActivity has a non-empty contributor
\* login (a PR or issue whose author has no login, or an empty one, produces
\* no record).
C3_NonEmptyLogin ==
    \A i \in 1..Len(result) : result[i].contributor \notin {"", UNDEFINED}

\* The avatars of the PRs, then of the issues, whose author has this login, in
\* stream order (NULL for an author without avatar).
RECURSIVE avatarsOf(_, _)
avatarsOf(login, records) ==
    IF records = <<>> THEN <<>>
    ELSE LET r == Head(records)
             mine == /\ "author" \in DOMAIN r
                     /\ Get(r.author, "login", UNDEFINED) = login
         IN (IF mine THEN <<Get(r.author, "avatarUrl", NULL)>> ELSE <<>>)
            \o avatarsOf(login, Tail(records))
firstNonNull(s) ==
    IF \E i \in 1..Len(s) : s[i] # NULL
    THEN s[CHOOSE i \in 1..Len(s) : s[i] # NULL /\ \A j \in 1..(i - 1) : s[j] = NULL]
    ELSE NULL

\* C4: the avatar_url of every contributor in the merge output is the first
\* non-null avatar seen for its login across the PR stream, then the issue
\* stream, then the commit stream (commits carry no avatar).
C4_FirstNonNullAvatar ==
    stage = "merged" =>
        \A i \in 1..Len(result) :
            result[i].avatar_url =
                firstNonNull(avatarsOf(result[i].contributor, prsData \o issuesData))

\* C5: the array returned by combineActivity is in non-increasing order of
\* (number of commits + number of pull requests); opened issues play no part.
C5_SortedByActivity ==
    stage = "merged" =>
        \A i, j \in 1..Len(result) :
            i < j =>
                Len(result[i].activity.code.commits)
                    + Len(result[i].activity.code.pull_requests)
                >= Len(result[j].activity.code.commits)
                    + Len(result[j].activity.code.pull_requests)

\* C5 witness: the sort moved a contributor with one commit in front of a
\* contributor, created earlier, with two issues and no commit or PR.
C5_Witness ==
    /\ stage = "merged"
    /\ Len(result) = 2
    /\ result # contributors
    /\ Len(result[1].activity.issues.opened) = 0
    /\ Len(result[2].activity.issues.opened) = 2

(***************************************************************************)
(* Properties of the scoring engine and of the ranking.                    *)
(***************************************************************************)
position(s, login) == CHOOSE k \in 1..Len(s) : s[k].contributor = login

\* C6: addScores returns its records in non-increasing order of score, and
\* two records of equal score keep the relative order they had in the array
\* it was given.
C6_StableRanking ==
    runs >= 1 =>
        /\ Len(arr) = Len(prev)
        /\ {arr[i].contributor : i \in 1..Len(arr)}
              = {prev[i].contributor : i \in 1..Len(prev)}
        /\ \A i, j \in 1..Len(arr) :
              i < j =>
                  /\ arr[i].score >= arr[j].score
                  /\ arr[i].score = arr[j].score =>
                        position(prev, arr[i].contributor)
                            < position(prev, arr[j].contributor)

\* C6 witness: two records that tie after scoring, whose stale scores were in
\* increasing order, come out in the order they went in.
C6_Witness ==
    /\ runs = 1
    /\ Len(arr) = 2
    /\ arr[1].score = arr[2].score
    /\ prev[1].score < prev[2].score
    /\ arr[1].contributor = prev[1].contributor

\* C7: calculateScore depends on the login and the activity graph only (not on
\* the record's score, summary or avatar_url), and a second addScores on its
\* own output changes neither a score nor the order.
C7_ScoreDeterminism ==
    /\ \A i \in 1..Len(arr) : \A d \in Decorations :
          calculateScore(Contributor(arr[i].contributor, arr[i].activity, d))
              = calculateScore(arr[i])
    /\ runs >= 2 => arr = prev

\* C7 witness: addScores ran twice on an array that its first run changed and
\* whose records came with different scores.
C7_Witness ==
    /\ runs = 2
    /\ Len(arr) = 2
    /\ input # arr
    /\ input[1].score # input[2].score

\* C8: with the default weights and non-negative inputs the score is a
\* non-negative integer, the floor of a sum whose components are all >= 0.
C8_NonNegativeScore ==
    \A i \in 1..Len(arr) :
        LET c == arr[i]
            prs == c.activity.code.pull_requests
            opened == c.activity.issues.opened
        IN /\ \A k \in 1..Len(prs) :
                 /\ calculatePrPoints(prs[k]) >= 0
                 /\ calculateCollaborationPoints(prs[k], c.contributor) >= 0
           /\ \A k \in 1..Len(opened) : calculateIssuePoints(opened[k]) >= 0
           /\ volumeFloor(c) >= 0
           /\ rawScore(c) >= 0
           /\ calculateScore(c) \in Nat
           /\ Scale * calculateScore(c) <= rawScore(c)
           /\ rawScore(c) < Scale * (calculateScore(c) + 1)
           /\ runs >= 1 => c.score = calculateScore(c)

\* C8 witness: a scored array with a record whose sum is not a whole number
\* and a record with an unmerged PR.
C8_Witness ==
    /\ runs = 1
    /\ \E i \in 1..Len(arr) : rawScore(arr[i]) % Scale # 0 /\ arr[i].score > 0
    /\ \E i \in 1..Len(arr) :
          \E k \in 1..Len(arr[i].activity.code.pull_requests) :
              ~arr[i].activity.code.pull_requests[k].merged

plusOneCommit(c) == [c EXCEPT !.activity.code.total_commits = @ + 1]

\* C9: with every other field of a record fixed, one more in total_commits
\* never lowers calculateScore.
C9_CommitMonotone ==
    \A i \in 1..Len(arr) :
        calculateScore(plusOneCommit(arr[i])) >= calculateScore(arr[i])

\* C9 witness: a scored record whose total_commits is not the length of its
\* commit list, and whose score rises by one with one more.
C9_Witness ==
    /\ runs = 1
    /\ \E i \in 1..Len(arr) :
          /\ arr[i].activity.code.total_commits = 3
          /\ arr[i].activity.code.commits = <<>>
          /\ calculateScore(plusOneCommit(arr[i])) = arr[i].score + 1

\* the number of input commits whose resolved login is this one
commitsBy(login) ==
    Cardinality({i \in 1..Len(commitsArray) :
                    /\ "author" \in DOMAIN commitsArray[i]
                    /\ commitsArray[i].author.user.login = login})

\* C10: a contributor merged from n commits and no PR or issue scores 2n
\* (n commit points and n volume-floor points); 10 for n = 5.
C10_CommitOnlyScore ==
    stage = "scored" =>
        \A i \in 1..Len(result) :
            /\ result[i].activity.code.pull_requests = <<>>
            /\ result[i].activity.issues.opened = <<>>
            /\ result[i].score = 2 * commitsBy(result[i].contributor)

\* C10 witness: a contributor with five commits and score 10.
C10_Witness ==
    /\ stage = "scored"
    /\ \E i \in 1..Len(result) :
          /\ commitsBy(result[i].contributor) = 5
          /\ result[i].score = 10

\* a merged PR with no files, no reviews, no comments and a 120-character body
isSmallMergedPr(pr) ==
    /\ Get(pr, "merged", FALSE) /\ ~Get(pr, "draft", FALSE)
    /\ Get(pr, "files", <<>>) = <<>>
    /\ Get(pr, "reviews", <<>>) = <<>>
    /\ Get(pr, "comments", <<>>) = <<>>
    /\ Has(pr, "body") /\ pr.body.len = 120

\* a record whose whole activity is two such PRs
hasTwoSmallPrsOnly(c) ==
    LET code == c.activity.code
    IN /\ Len(code.pull_requests) = 2
       /\ \A k \in 1..2 : isSmallMergedPr(code.pull_requests[k])
       /\ code.total_prs = 2 /\ code.total_commits = 0
       /\ c.activity.issues.opened = <<>> /\ c.activity.issues.total_opened = 0
       /\ c.activity.engagement.total_comments = 0

\* C11: with the default weights a contributor with exactly two merged PRs,
\* each with no files, no reviews, no comments and a 120-character body, gets
\* 5.84 points per PR (7 * 0.8 + 120 / 500) and a volume floor of 4, and
\* calculateScore returns floor(15.68) = 15.
C11_TwoSmallPrsScore ==
    \A i \in 1..Len(arr) :
        hasTwoSmallPrsOnly(arr[i]) =>
            /\ \A k \in 1..2 :
                  100 * calculatePrPoints(arr[i].activity.code.pull_requests[k])
                      = 584 * Scale
            /\ volumeFloor(arr[i]) = 4 * Scale
            /\ 100 * rawScore(arr[i]) = 1568 * Scale
            /\ calculateScore(arr[i]) = 15
            /\ runs >= 1 => arr[i].score = 15

\* C11 witness: addScores has scored such a record 15.
C11_Witness ==
    /\ runs = 1
    /\ \E i \in 1..Len(arr) : hasTwoSmallPrsOnly(arr[i]) /\ arr[i].score = 15

(***************************************************************************)
(* Properties of the orchestrator.                                         *)
(***************************************************************************)
\* the file differs from what it was when the invocation started
changed(path) ==
    \/ path \notin DOMAIN fs0
    \/ path \notin DOMAIN fs
    \/ fs[path] # fs0[path]

\* the artifacts a stage needs from the stage before it
gateArtifacts(period, stg) ==
    CASE stg = "merge" -> {file(period, name) : name \in requiredFiles}
      [] stg = "score" -> {file(period, "combined.json")}
      [] stg = "summarize" -> {file(period, "scored.json")}
      [] stg \in {"publish", "daily_summary", "snapshot"} ->
             {file(period, "contributors.json")}
      [] stg = "build" -> {rootContributors}
      [] OTHER -> {}

\* this step starts the command of a stage
stageStarts ==
    /\ Len(trace') = Len(trace) + 1
    /\ trace'[Len(trace')].kind = "command"

stageOrder ==
    <<"fetch", "merge", "score", "summarize", "publish", "daily_summary",
      "snapshot">>
stagesOf(period) ==
    IF period = "daily" THEN stageOrder ELSE SubSeq(stageOrder, 1, 5)
runPeriods ==
    IF entry.fn = "main"
    THEN IF entry.arg = "all" THEN PeriodOrder
         ELSE IF entry.arg \in Periods THEN <<entry.arg>> ELSE <<>>
    ELSE IF entry.fn = "processData" THEN <<entry.arg>> ELSE <<>>
RECURSIVE planOf(_)
planOf(ps) ==
    IF ps = <<>> THEN <<>>
    ELSE [i \in 1..Len(stagesOf(Head(ps))) |->
             <<Head(ps), stagesOf(Head(ps))[i]>>] \o planOf(Tail(ps))
\* the stages of the invocation, in the order it runs them
plan ==
    LET stages == planOf(runPeriods)
    IN (IF entry.fn = "processData" THEN SubSeq(stages, 2, Len(stages))
        ELSE stages)
       \o (IF entry.fn \in {"main", "buildSite"} THEN << <<"", "build">> >>
           ELSE <<>>)
\* the artifacts that are the output of a stage
artifacts(period, stg) ==
    CASE stg = "fetch" ->
             {[dir |-> period, hist |-> h, name |-> name, date |-> d] :
                 h \in BOOLEAN, name \in requiredFiles, d \in 0..MaxDay}
      [] stg = "merge" -> {file(period, "combined.json")}
      [] stg = "score" -> {file(period, "scored.json")}
      [] stg = "summarize" -> {file(period, "contributors.json")}
      [] stg = "publish" -> {rootContributors}
      [] stg = "daily_summary" ->
             {file(period, "summary.json"), file(period, "summary.md")}
      [] stg = "snapshot" ->
             {[dir |-> period, hist |-> TRUE, name |-> name, date |-> d] :
                 name \in {"contributors.json", "summary.json", "summary.md"},
                 d \in 0..MaxDay}
      [] stg = "build" -> {file("site", "bundle"), file("site", "index.html")}
      [] OTHER -> {}
\* the stages that come after the point where the invocation failed
laterStages ==
    IF trace = <<>> THEN 1..Len(plan)
    ELSE LET e == trace[Len(trace)]
             at == CHOOSE k \in 1..Len(plan) : plan[k] = <<e.period, e.stage>>
         IN IF e.kind = "gate" THEN at..Len(plan) ELSE (at + 1)..Len(plan)
\* their artifacts, those shared with an earlier stage left out
laterArtifacts ==
    UNION {artifacts(plan[k][1], plan[k][2]) : k \in laterStages}
        \ UNION {artifacts(plan[k][1], plan[k][2]) :
                    k \in (1..Len(plan)) \ laterStages}

C15_OnlyDailyWritesHistory ==
    (entry.fn = "main" /\ entry.arg \in {"weekly", "monthly"}) =>
        \A h \in DOMAIN fs :
            (h.hist /\ h.dir \in {"weekly", "monthly"}) =>
                h \in DOMAIN fs0 /\ fs[h] = fs0[h]

\* C15 amended: fetchData puts a dated copy of prs, issues and commits into
\* the history partition of every period; the snapshot of contributors.json,
\* summary.json and summary.md is taken for the daily period only.
C15_OnlyDailySnapshots ==
    \A h \in DOMAIN fs :
        (h.hist /\ changed(h)) => h.name \in requiredFiles \/ h.dir = "daily"

\* C15 witness: a weekly run that ran to its end and wrote the dated raw
\* files into data/weekly/history.
C15_Witness ==
    /\ pc = "done" /\ entry.fn = "main" /\ entry.arg = "weekly"
    /\ \E h \in DOMAIN fs :
          h.hist /\ h.dir = "weekly" /\ fs[h].run = invocation

\* the site build has not been started
beforeBuild == \A i \in 1..Len(trace) : trace[i].stage # "build"

\* C16 as stated: until the site build, a run for one period leaves every
\* file outside data/<period> unchanged.
C16_WritesOnlyInPeriod ==
    (entry.fn = "main" /\ entry.arg \in Periods /\ beforeBuild) =>
        \A path \in DOMAIN fs \cup DOMAIN fs0 :
            path.dir # entry.arg => ~changed(path)

\* C16 amended: until the site build, a run for one period writes inside
\* data/<period> and, once its contributors.json has passed the gate, the
\* copy data/contributors.json; every other file is unchanged.
C16_WritesInPeriodAndRoot ==
    (entry.fn = "main" /\ entry.arg \in Periods /\ beforeBuild) =>
        \A path \in DOMAIN fs \cup DOMAIN fs0 :
            (path.dir # entry.arg /\ changed(path)) =>
                /\ path = [dir |-> "", hist |-> FALSE,
                           name |-> "contributors.json", date |-> 0]
                /\ \E i \in 1..Len(trace) :
                      trace[i].stage = "publish" /\ trace[i].kind = "command"
                          /\ trace[i].ok
                /\ fs[path] = fs[[path EXCEPT !.dir = entry.arg]]

\* C16 witness: a weekly run has replaced data/contributors.json before the
\* site build.
C16_Witness ==
    /\ entry.fn = "main" /\ entry.arg = "weekly" /\ beforeBuild
    /\ rootContributors \in DOMAIN fs0
    /\ changed(rootContributors)

\* C17: when the summarizer call fails for some contributors the summarize
\* stage still completes and writes contributors.json, holding the records of
\* this run's scored.json with a placeholder summary for the failed ones, and
\* the pipeline goes on.
C17_SummarizerFailureTolerated ==
    \A i \in 1..Len(trace) :
        (trace[i].stage = "summarize" /\ trace[i].kind = "command"
            /\ trace[i].failedCalls) =>
            LET out == file(trace[i].period, "contributors.json")
            IN /\ out \in DOMAIN fs
               /\ fs[out].run = invocation
               /\ fs[out].data = "scored"
               /\ fs[out].summary = "placeholder"

(***************************************************************************)
(* Order of the input records.                                             *)
(***************************************************************************)
\* the sequence s read in the order p, a permutation of its indices
permuted(s, p) == [i \in 1..Len(s) |-> s[p[i]]]

\* the logins of an array, each with what calculateScore gives its record
scoreTable(m) == {<<m[j].contributor, calculateScore(m[j])>> : j \in 1..Len(m)}

\* C18: for any permutation of the records inside the PR, issue and commit
\* arrays given to combineActivity, the merge holds the same contributors and
\* calculateScore gives each of them the same value (exact arithmetic).
C18_OrderIndependentScore ==
    stage = "scored" =>
        \A pp \in Permutations(1..Len(prsData)) :
        \A pi \in Permutations(1..Len(issuesData)) :
        \A pk \in Permutations(1..Len(commitsArray)) :
            scoreTable(combineActivity(permuted(prsData, pp),
                                       permuted(issuesData, pi),
                                       permuted(commitsArray, pk)))
                = {<<result[i].contributor, result[i].score>> :
                      i \in 1..Len(result)}

\* C18 witness: a scored merge and a permutation of its PRs that gives a
\* contributor with a positive score another avatar and another PR order.
C18_Witness ==
    /\ stage = "scored"
    /\ \E pp \in Permutations(1..Len(prsData)) :
          LET alt == combineActivity(permuted(prsData, pp), issuesData,
                                     commitsArray)
          IN \E i \in 1..Len(result) : \E j \in 1..Len(alt) :
                /\ alt[j].contributor = result[i].contributor
                /\ alt[j].avatar_url # result[i].avatar_url
                /\ alt[j].activity.code.pull_requests
                       # result[i].activity.code.pull_requests
                /\ result[i].score > 0

(***************************************************************************)
(* Properties of summarize.js.                                             *)
(***************************************************************************)
\* C19: whatever the order in which the calls settle, the output file is
\* written only after all of them have settled, the summary of each record
\* is the result of its own call, and the order of the array, every score and
\* every activity graph are those of the input.
C19_SummariesOwnCall ==
    /\ \A i \in 1..Len(calls) :
          calls[i].state = "settled" => sumArr[i].summary = calls[i].summary
    /\ outFile # <<>> =>
          /\ \A i \in 1..Len(calls) : calls[i].state = "settled"
          /\ Len(outFile[1]) = Len(sumInput)
          /\ \A i \in 1..Len(sumInput) :
                /\ outFile[1][i].contributor = sumInput[i].contributor
                /\ outFile[1][i].score = sumInput[i].score
                /\ outFile[1][i].activity = sumInput[i].activity
                /\ outFile[1][i].avatar_url = sumInput[i].avatar_url
                /\ outFile[1][i].summary = calls[i].summary
                /\ \E kind \in {"none", "model", "error"} :
                      outFile[1][i].summary
                          = summaryText(sumInput[i].contributor, kind)

\* C19 witness: the file was written after the second record's call settled
\* before the first one's, one of the two with an error.
C19_Witness ==
    /\ sumPc = "written" /\ outFile # <<>>
    /\ Len(calls) = 2
    /\ calls[1].rank = 2 /\ calls[2].rank = 1
    /\ outFile[1][1].summary = summaryText(sumInput[1].contributor, "error")
    /\ outFile[1][2].summary = summaryText(sumInput[2].contributor, "model")

(***************************************************************************)
(* Properties of calculatePrPoints.                                        *)
(***************************************************************************)
\* C20: calculatePrPoints returns 0 for a PR that is not merged or is a
\* draft, whatever its body, reviews and comments; only a merged PR that is
\* not a draft gets points.
C20_OnlyMergedNonDraft ==
    prPoints # <<>> =>
        LET merged == "merged" \in DOMAIN prArg /\ prArg.merged
            draft == "draft" \in DOMAIN prArg /\ prArg.draft
        IN /\ (~merged \/ draft) => prPoints[1] = 0
           /\ prPoints[1] # 0 => merged /\ ~draft

\* C20 witness: 0 points for a merged draft with a long body, an approved
\* review and a meaningful comment.
C20_Witness ==
    /\ prPoints = <<0>>
    /\ "merged" \in DOMAIN prArg /\ prArg.merged
    /\ "draft" \in DOMAIN prArg /\ prArg.draft
    /\ prArg.body.len = 2000
    /\ Len(prArg.reviews) = 2
    /\ Len(prArg.comments) = 1

(***************************************************************************)
(* Properties of the multipliers of a PR.                                  *)
(***************************************************************************)
\* the additions and the deletions of the files of the raw PR
rawAdditions ==
    LET files == Get(prArg, "files", <<>>)
    IN SumInts([i \in 1..Len(files) |-> Get(files[i], "additions", 0)])
rawDeletions ==
    LET files == Get(prArg, "files", <<>>)
    IN SumInts([i \in 1..Len(files) |-> Get(files[i], "deletions", 0)])

\* C21: the size multiplier of a PR with c changed lines (additions plus
\* deletions over its files) is 0.8 for c < 50, 1.2 for 50 <= c <= 300 and
\* 0.9 for c > 300; 50 and 300 both give the medium multiplier.
C21_SizeMultiplier ==
    sizeMultiplier # <<>> =>
        LET c == rawAdditions + rawDeletions
        IN /\ c < 50 => sizeMultiplier[1] = 8
           /\ (50 <= c /\ c <= 300) => sizeMultiplier[1] = 12
           /\ c > 300 => sizeMultiplier[1] = 9

\* a PR of exactly 300 changed lines, in two files, got the medium multiplier
C21_Witness ==
    /\ sizeMultiplier = <<12>>
    /\ rawAdditions + rawDeletions = 300
    /\ Len(prArg.files) = 2

\* C22: the quality multiplier is the product of exactly the bonuses whose
\* condition holds, 1.0 when none holds: squash (x2) iff the PR has a single
\* commit and more than 200 changed lines, deletion (x1.5) iff the deletions
\* exceed the additions by more than 50, documentation (x1.2) iff the body is
\* longer than 500 characters.  A raw PR without a commit list, or with an
\* empty one, is counted as a single-commit PR, as `pr.commits?.length || 1`
\* counts it.  The multiplier is in thousandths.
C22_QualityMultiplier ==
    qualityMultiplier # <<>> =>
        LET singleCommit == Len(Get(prArg, "commits", <<>>)) <= 1
            squash == singleCommit /\ rawAdditions + rawDeletions > 200
            deletion == rawDeletions > rawAdditions + 50
            documentation == Has(prArg, "body") /\ prArg.body.len > 500
        IN qualityMultiplier[1] =
               (IF squash THEN 20 ELSE 10) * (IF deletion THEN 15 ELSE 10)
                   * (IF documentation THEN 12 ELSE 10)

(***************************************************************************)
(* Properties of the reviewer and collaboration bonuses, on the records    *)
(* combineActivity produced.                                               *)
(***************************************************************************)
\* the number of reviews, over the PRs of the record's own list, whose author is the
\* record's login
ownReviews(c) ==
    LET prs == c.activity.code.pull_requests
    IN SumInts([i \in 1..Len(prs) |->
           Cardinality({j \in 1..Len(prs[i].reviews) :
               Get(prs[i].reviews[j], "author", UNDEFINED) = c.contributor})])
\* every term of the score but the reviewer bonus, in units of 1/Scale
scoreBesidesReviewerBonus(c) ==
    LET prs == c.activity.code.pull_requests
        opened == c.activity.issues.opened
        commits == c.activity.code.commits
    IN SumInts([i \in 1..Len(prs) |->
                   calculatePrPoints(prs[i])
                   + calculateCollaborationPoints(prs[i], c.contributor)])
       + SumInts([i \in 1..Len(opened) |-> calculateIssuePoints(opened[i])])
       + SumInts([i \in 1..Len(commits) |-> calculateCommitPoints(commits[i])])
       + volumeFloor(c)
\* the raw PRs, those of other authors than login without their reviews
withoutReviewsOnOthers(prs, login) ==
    [i \in 1..Len(prs) |->
        IF prAuthorLogin(prs[i]) = login THEN prs[i]
        ELSE [f \in DOMAIN prs[i] \ {"reviews"} |-> prs[i][f]]]

processedPrsBy(login) ==
    SelectSeq(SubSeq(prsData, 1, iPr),
              LAMBDA p : Has(p, "author") /\ Get(p.author, "login", UNDEFINED) = login)
processedIssuesBy(login) ==
    SelectSeq(SubSeq(issuesData, 1, iIssue),
              LAMBDA p : Has(p, "author") /\ Get(p.author, "login", UNDEFINED) = login)
processedCommitsBy(login) ==
    SelectSeq(SubSeq(commitsArray, 1, iCommit),
              LAMBDA p : /\ Has(p, "author") /\ Has(p.author, "user")
                         /\ Has(p.author.user, "login")
                         /\ p.author.user.login # ""
                         /\ p.author.user.login = login)
hasAll(rec, fields) == fields \subseteq DOMAIN rec

\* C24: a record that has an author but lacks optional fields does not abort
\* the merge: it is counted, its missing collections become empty lists and
\* its missing numbers, flag and text 0, false and the empty string, and the
\* records before and after it are merged as usual.
C24_MissingFieldsDefaulted ==
    \A k \in 1..Len(contributors) :
        LET c == contributors[k]
            prs == processedPrsBy(c.contributor)
            issues == processedIssuesBy(c.contributor)
            commits == processedCommitsBy(c.contributor)
            prEntries == c.activity.code.pull_requests
            issueEntries == c.activity.issues.opened
            commitEntries == c.activity.code.commits
        IN /\ Len(prEntries) = Len(prs) /\ c.activity.code.total_prs = Len(prs)
           /\ Len(issueEntries) = Len(issues)
           /\ c.activity.issues.total_opened = Len(issues)
           /\ Len(commitEntries) = Len(commits)
           /\ c.activity.code.total_commits = Len(commits)
           /\ \A j \in 1..Len(prs) :
                 /\ ~Has(prs[j], "files") => prEntries[j].files = <<>>
                 /\ ~Has(prs[j], "reviews") => prEntries[j].reviews = <<>>
                 /\ ~Has(prs[j], "comments") => prEntries[j].comments = <<>>
                 /\ ~Has(prs[j], "body") => prEntries[j].body = Text(0, 0)
                 /\ ~Has(prs[j], "merged") => prEntries[j].merged = FALSE
                 /\ hasAll(prs[j], {"files", "reviews", "comments", "body", "merged"})
                       => prEntries[j] = prData(prs[j])
           /\ \A j \in 1..Len(issues) :
                 /\ ~Has(issues[j], "labels") => issueEntries[j].labels = <<>>
                 /\ ~Has(issues[j], "comments") => issueEntries[j].comments = <<>>
                 /\ ~Has(issues[j], "body") => issueEntries[j].body = Text(0, 0)
                 /\ hasAll(issues[j], {"labels", "comments", "body"})
                       => issueEntries[j] = issueData(issues[j])
           /\ \A j \in 1..Len(commits) :
                 /\ ~Has(commits[j], "additions") => commitEntries[j].additions = 0
                 /\ ~Has(commits[j], "deletions") => commitEntries[j].deletions = 0
                 /\ ~Has(commits[j], "changedFiles")
                       => commitEntries[j].changed_files = 0
                 /\ hasAll(commits[j], {"additions", "deletions", "changedFiles"})
                       => commitEntries[j] = commitData(commits[j])

\* the merge of a PR without optional fields, a complete PR and a commit
\* without numbers, all three of alice, has completed
C24_Witness ==
    /\ stage = "merged"
    /\ Len(result) = 1
    /\ result[1].contributor = "alice"
    /\ Len(result[1].activity.code.pull_requests) = 2
    /\ \E j \in 1..2 : result[1].activity.code.pull_requests[j].files = <<>>
    /\ \E j \in 1..2 : result[1].activity.code.pull_requests[j].files # <<>>
    /\ Len(result[1].activity.code.commits) = 1
    /\ result[1].activity.code.commits[1].additions = 0
    /\ \E i \in 1..Len(prsData) : ~Has(prsData[i], "files")
    /\ ~Has(commitsArray[1], "additions")

(***************************************************************************)
(* Properties of calculateScore under overridden weights.                  *)
(***************************************************************************)
\* the number a weight stands for, in units of 1/Scale: its override read as
\* a number, or its default (given in tenths)
weightAsNumber(name, d) ==
    IF Has(env, name) /\ env[name] # <<>>
    THEN integerPart(env[name]) * Scale
         + fractionValue(SubSeq(env[name], dotAt(env[name]) + 1, Len(env[name])),
                         Tenth)
    ELSE Tenth * d
\* the score of scoreArg with every weight a number
scoreWithNumbers ==
    LET c == scoreArg[1]
        prs == c.activity.code.pull_requests
        opened == c.activity.issues.opened
        reviews == SumInts([i \in 1..Len(prs) |-> reviewsGiven(prs[i], c.contributor)])
    IN (SumInts([i \in 1..Len(prs) |->
                   calculatePrPoints(prs[i])
                   + calculateCollaborationPoints(prs[i], c.contributor)])
        + SumInts([i \in 1..Len(opened) |-> calculateIssuePoints(opened[i])])
        + Len(c.activity.code.commits) * weightAsNumber("TOTAL_COMMITS_BASE", 10)
        + reviews * weightAsNumber("REVIEW_POINTS", 50)
        + c.activity.code.total_commits * weightAsNumber("TOTAL_COMMITS_BASE", 10)
        + c.activity.code.total_prs * weightAsNumber("TOTAL_PRS_BASE", 20)
        + c.activity.issues.total_opened * weightAsNumber("TOTAL_ISSUES", 10)
        + c.activity.engagement.total_comments * weightAsNumber("TOTAL_COMMENTS", 5))
       \div Scale

\* C25: with a weight overridden through its environment variable by a
\* numeric value w, calculateScore returns what it would return if the
\* constant were the number w; a contributor with n commits and no other
\* activity, TOTAL_COMMITS_BASE being w, scores floor(2*n*w).
C25_OverrideAsNumber ==
    returned # <<>> =>
        /\ returned[1] = Integer(scoreWithNumbers)
        /\ LET activity == scoreArg[1].activity
               n == Len(activity.code.commits)
           IN (/\ activity.code.total_commits = n
               /\ activity.code.pull_requests = <<>>
               /\ activity.issues.opened = <<>>
               /\ activity.engagement.total_comments = 0)
              => returned[1] =
                     Integer((2 * n * weightAsNumber("TOTAL_COMMITS_BASE", 10)) \div Scale)

(***************************************************************************)
(* Properties of an invocation that follows a stopped one.                 *)
(***************************************************************************)
\* the steps of `main daily` in their order; each adds one event to trace
dailySteps ==
    <<"fetch_prs", "fetch_issues", "fetch_commits", "verify_inputs", "combine",
      "verify_combined", "score", "verify_scored", "summarize",
      "verify_contributors", "copy_root", "summary_json", "summary_md",
      "snapshot", "verify_root", "build_site", "generate_site">>
\* the step at which the stopped invocation failed
failedStep == dailySteps[Len(trace)]
\* the next invocation starts
restarts == pc = "failed" /\ invocation' = invocation + 1

\* C26 as stated: a run that stopped after stage N leaves its artifacts on
\* disk, and the next invocation continues with stage N+1, the step at which
\* the run stopped, without running the stages before it again.
C26_ResumesAfterStageN ==
    [][/\ pc = "failed" => fs' = fs
       /\ restarts => pc' = failedStep]_vars

\* C26 amended: the artifacts of a stopped run stay on disk, but the next
\* invocation of main starts at fetchData again, whatever the step at which
\* the run stopped, and the fetch, merge, score and summarize stages it runs
\* write their files anew.
C26_RestartsAtFetch ==
    [][/\ pc = "failed" => fs' = fs
       /\ restarts => pc' = "fetch_prs"
       /\ \A path \in DOMAIN fs' :
             (/\ path \notin DOMAIN fs \/ fs'[path] # fs[path]
              /\ path.name \in {"prs.json", "issues.json", "commits.json",
                                "combined.json", "scored.json"})
                 => fs'[path].run = invocation]_vars

\* the first run stopped after combine.js had written combined.json; the
\* second run has fetched the PRs again and replaced the first run's prs.json
C26_Witness ==
    /\ invocation = 2
    /\ pc = "fetch_issues"
    /\ file("daily", "combined.json") \in DOMAIN fs0
    /\ fs0[file("daily", "combined.json")].run = 1
    /\ file("daily", "scored.json") \in DOMAIN fs0
         => fs0[file("daily", "scored.json")].run # 1
    /\ fs0[file("daily", "prs.json")].run = 1
    /\ fs[file("daily", "prs.json")].run = 2

(***************************************************************************)
(* Properties of the collaboration points of merged records.               *)
(***************************************************************************)
\* the review and coordination points of a PR, in units of 1/Scale
collaborationBesidesMerge(pr, login) ==
    LET reviewComments == Cardinality({i \in 1..Len(pr.reviews) :
            /\ Get(pr.reviews[i], "author", UNDEFINED) = login
            /\ Has(pr.reviews[i], "body") /\ pr.reviews[i].body.len > 20})
        coordComments == Cardinality({i \in 1..Len(pr.comments) :
            /\ Get(pr.comments[i], "author", UNDEFINED) = login
            /\ Has(pr.comments[i], "body") /\ pr.comments[i].body.mentions > 1})
    IN Tenth * (reviewComments * 10 + coordComments * 15)
\* the score of a record when no PR earns the merge bonus
scoreWithoutMergeBonus(c) ==
    LET prs == c.activity.code.pull_requests
        opened == c.activity.issues.opened
        commits == c.activity.code.commits
    IN (SumInts([i \in 1..Len(prs) |->
                   calculatePrPoints(prs[i])
                   + collaborationBesidesMerge(prs[i], c.contributor)])
        + SumInts([i \in 1..Len(opened) |-> calculateIssuePoints(opened[i])])
        + SumInts([i \in 1..Len(commits) |-> calculateCommitPoints(commits[i])])
        + SumInts([i \in 1..Len(prs) |->
                      Tenth * reviewsGiven(prs[i], c.contributor) * REVIEW_POINTS])
        + volumeFloor(c)) \div Scale

commentCount == Len(Get(issueArg, "comments", <<>>))

\* C28: hasEngagement is true exactly when the issue has at least one
\* comment; reactions never make an issue without comments engaged, and such
\* an issue earns 0 issue points.
C28_EngagementIsComments ==
    /\ engaged # <<>> => (engaged[1] <=> commentCount >= 1)
    /\ (issuePoints # <<>> /\ commentCount = 0) => issuePoints[1] = 0
    /\ (issuePoints # <<>> /\ commentCount >= 1) => issuePoints[1] > 0

\* an issue that carries reactions and an empty comment list was found not
\* engaged and earned 0 points
C28_Witness ==
    /\ Has(issueArg, "reactions") /\ Has(issueArg, "comments")
    /\ issueArg.comments = <<>>
    /\ engaged = <<FALSE>>
    /\ issuePoints = <<0>>

\* the label names of the issue in lower case
labelNames ==
    LET lower == [n \in LabelNames |->
                     CASE n = "Bug" -> "bug"
                       [] n = "Enhancement" -> "enhancement"
                       [] OTHER -> n]
    IN {lower[issueArg.labels[i].name] : i \in 1..Len(issueArg.labels)}

\* C29: the type multiplier is chosen by the precedence bug (1.3), then
\* documentation (0.8), then enhancement (1.1), else 1.0; the complexity
\* multiplier by the precedence complex or high-priority (1.5), then easy or
\* good-first-issue (1.0), else 1.2; the result is their product (here in
\* hundredths).
C29_MultiplierPrecedence ==
    multiplier # <<>> =>
        LET type == IF "bug" \in labelNames THEN 13
                    ELSE IF "documentation" \in labelNames THEN 8
                    ELSE IF "enhancement" \in labelNames THEN 11
                    ELSE 10
            complexity ==
                IF labelNames \cap {"complex", "high-priority"} # {} THEN 15
                ELSE IF labelNames \cap {"easy", "good-first-issue"} # {} THEN 10
                ELSE 12
        IN multiplier[1] = type * complexity

\* an issue labelled enhancement, then documentation, then easy got 0.8 * 1.0
C29_Witness ==
    /\ multiplier = <<80>>
    /\ Len(issueArg.labels) = 3
    /\ issueArg.labels[1].name = "Enhancement"
    /\ issueArg.labels[2].name = "documentation"
    /\ issueArg.labels[3].name = "easy"

(***************************************************************************)
(* Properties of a run with period `all`.                                  *)
(***************************************************************************)
\* the place of an event's period in the order of the run; the build, which
\* belongs to no period, comes last
periodIndex(p) ==
    CASE p = "daily" -> 1 [] p = "weekly" -> 2 [] p = "monthly" -> 3 [] OTHER -> 4
\* the events of a period's fetchData that precede event j
fetchesBefore(p, j) ==
    {i \in 1..(j - 1) : trace[i].period = p /\ trace[i].stage = "fetch"}
\* the period's copy to data/contributors.json was made before event j
publishedBefore(p, j) ==
    \E i \in 1..(j - 1) :
        trace[i].period = p /\ trace[i].stage = "publish" /\ trace[i].ok

\* C30: in a run with period `all` the periods are processed in the order
\* daily, weekly, monthly, the three fetches of a period before its
\* processData; buildSite runs once, after the three periods completed
\* without error, and the data/contributors.json it reads is the copy of the
\* monthly contributors.json.
C30_AllRunOrder ==
    (entry.fn = "main" /\ entry.arg = "all") =>
        /\ \A i, j \in 1..Len(trace) :
              i < j => periodIndex(trace[i].period) <= periodIndex(trace[j].period)
        /\ \A j \in 1..Len(trace) :
              IF trace[j].stage = "fetch"
              THEN fetchesBefore(trace[j].period, j) = 1..(j - 1)
                       \cap {i \in 1..(j - 1) : trace[i].period = trace[j].period}
              ELSE trace[j].stage # "build"
                       => Cardinality(fetchesBefore(trace[j].period, j)) = 3
        /\ \A j \in 1..Len(trace) :
              trace[j].stage = "build" =>
                  /\ \A i \in 1..(j - 1) : trace[i].ok
                  /\ \A p \in {"daily", "weekly", "monthly"} : publishedBefore(p, j)
        /\ Cardinality({j \in 1..Len(trace) :
                           trace[j].stage = "build" /\ trace[j].kind = "gate"}) <= 1
        /\ pc \in {"verify_root", "build_site", "generate_site", "done"} =>
              /\ rootContributors \in DOMAIN fs
              /\ fs[rootContributors]
                     = fs[[dir |-> "monthly", hist |-> FALSE,
                           name |-> "contributors.json", date |-> 0]]
              /\ fs[rootContributors].window = "monthly"

\* an `all` run has built the site: data/contributors.json, which held daily
\* data when the run started, holds the monthly data
C30_Witness ==
    /\ entry.fn = "main" /\ entry.arg = "all"
    /\ pc = "done"
    /\ \E j \in 1..Len(trace) : trace[j].stage = "build" /\ trace[j].kind = "command"
    /\ fs0[rootContributors].window = "daily"
    /\ fs[rootContributors].window = "monthly"
    /\ \A p \in {"daily", "weekly", "monthly"} : publishedBefore(p, Len(trace))

=============================================================================
